---- MODULE Spec2Model ----
(***************************************************************************)
(* A model of the PII detector / de-identifier: the pattern registry, the  *)
(* detector with its overlap rules, the validators, the four               *)
(* de-identification strategies with the module-level pseudonymization     *)
(* state, and the per-cell loop of analyze_dataframe.                      *)
(*                                                                         *)
(* Strings are sequences of one-character strings; offsets are 0-based as  *)
(* in Python, so the character at offset i of s is s[i+1] and a span is    *)
(* the half-open interval [start, end).                                    *)
(***************************************************************************)
EXTENDS Integers, Sequences, FiniteSets, TLC

(***************************************************************************)
(* Characters and Python string primitives                                 *)
(***************************************************************************)
DigitSeq == <<"0","1","2","3","4","5","6","7","8","9">>
UpperSeq == <<"A","B","C","D","E","F","G","H","I","J","K","L","M",
              "N","O","P","Q","R","S","T","U","V","W","X","Y","Z">>
LowerSeq == <<"a","b","c","d","e","f","g","h","i","j","k","l","m",
              "n","o","p","q","r","s","t","u","v","w","x","y","z">>

Range(f) == {f[i] : i \in DOMAIN f}

DigitChars == Range(DigitSeq)
UpperChars == Range(UpperSeq)
LowerChars == Range(LowerSeq)
AlnumChars == DigitChars \cup UpperChars \cup LowerChars

\* \s of the aadhaar separator class and the characters str.strip() removes
WhitespaceChars == {" ", "\t", "\n", "\r", "\f"}

IsDigit(c) == c \in DigitChars
IsUpper(c) == c \in UpperChars
IsAlnum(c) == c \in AlnumChars
\* \w of the re module
WordChars == AlnumChars \cup {"_"}
IsWord(c) == c \in WordChars

IndexIn(seq, c) == CHOOSE i \in DOMAIN seq : seq[i] = c
\* int(c) for a digit character
DigitVal(c) == IndexIn(DigitSeq, c) - 1

At(s, i) == s[i + 1]
\* s[a:b] for 0 <= a, b (clamped like a Python slice)
Slice(s, a, b) ==
    LET bb == IF b > Len(s) THEN Len(s) ELSE b
    IN IF a >= bb THEN <<>> ELSE [k \in 1..(bb - a) |-> s[a + k]]
\* s[:k]
Prefix(s, k) == Slice(s, 0, k)
\* s[-k:] for k > 0
Suffix(s, k) == IF k >= Len(s) THEN s ELSE Slice(s, Len(s) - k, Len(s))

RECURSIVE Filter(_, _)
\* the characters of s that lie in the set keep, in order
Filter(s, keep) ==
    IF s = <<>> THEN <<>>
    ELSE IF Head(s) \in keep THEN <<Head(s)>> \o Filter(Tail(s), keep)
         ELSE Filter(Tail(s), keep)

\* re.sub(r"\D", "", s)
DigitsOnly(s) == Filter(s, DigitChars)

\* s.count(c)
CountChar(s, c) == Cardinality({i \in DOMAIN s : s[i] = c})

\* sub in s (substring test of the in operator on str)
IsSubstring(sub, s) ==
    \E a \in 0..Len(s) : a + Len(sub) <= Len(s) /\ Slice(s, a, a + Len(sub)) = sub

RECURSIVE LStrip(_)
LStrip(s) == IF s # <<>> /\ Head(s) \in WhitespaceChars THEN LStrip(Tail(s)) ELSE s
RECURSIVE RStrip(_)
RStrip(s) ==
    IF s # <<>> /\ s[Len(s)] \in WhitespaceChars THEN RStrip(SubSeq(s, 1, Len(s) - 1)) ELSE s
\* s.strip()
Strip(s) == RStrip(LStrip(s))

RECURSIVE Repeat(_, _)
\* c * k
Repeat(c, k) == IF k <= 0 THEN <<>> ELSE <<c>> \o Repeat(c, k - 1)

RECURSIVE IntToStr(_)
\* str(n) for n >= 0, as the f-strings format the counters
IntToStr(n) ==
    IF n < 10 THEN <<DigitSeq[n + 1]>>
    ELSE IntToStr(n \div 10) \o <<DigitSeq[(n % 10) + 1]>>

(***************************************************************************)
(* Pattern registry (config/patterns.py)                                   *)
(***************************************************************************)
K_aadhaar     == <<"a","a","d","h","a","a","r">>
K_pan         == <<"p","a","n">>
K_credit_card == <<"c","r","e","d","i","t","_","c","a","r","d">>
K_email       == <<"e","m","a","i","l">>
K_phone       == <<"p","h","o","n","e">>

\* the keys of the patterns dict, in insertion order
PatternKeys == <<K_aadhaar, K_pan, K_credit_card, K_email, K_phone>>
PatternKeySet == Range(PatternKeys)

L_CreditCard == <<"C","r","e","d","i","t"," ","C","a","r","d">>
L_Email      == <<"E","m","a","i","l">>
L_Aadhaar    == <<"A","a","d","h","a","a","r">>
L_PAN        == <<"P","A","N">>
L_Phone      == <<"P","h","o","n","e">>

\* display label -> internal key
TYPE_MAPPING ==
    (L_CreditCard :> K_credit_card) @@ (L_Email :> K_email) @@
    (L_Aadhaar :> K_aadhaar) @@ (L_PAN :> K_pan) @@ (L_Phone :> K_phone)

LowerChar(c) == IF c \in UpperChars THEN LowerSeq[IndexIn(UpperSeq, c)] ELSE c
\* s.lower()
Lower(s) == [k \in DOMAIN s |-> LowerChar(s[k])]

\* TYPE_MAPPING.get(pii_type, pii_type.lower())
MappedType(pii_type) ==
    IF pii_type \in DOMAIN TYPE_MAPPING THEN TYPE_MAPPING[pii_type] ELSE Lower(pii_type)

\* \b at offset p of s
WordBoundary(s, p) ==
    (p > 0 /\ IsWord(At(s, p - 1))) # (p < Len(s) /\ IsWord(At(s, p)))

\* k characters of the class cls starting at offset a
RunOf(s, a, k, cls) == a + k <= Len(s) /\ \A j \in a..(a + k - 1) : At(s, j) \in cls

AadhaarGroup == 4
AadhaarDigits == 12
AadhaarSeps == {"-"} \cup WhitespaceChars
\* the class of the closing lookahead
AadhaarAheadChars == DigitChars \cup {"-"}

\* (?<!\d)(?:\d{12}|(\d{4})([\-\s])\d{4}\2\d{4})(?![\d-]) tried at offset i:
\* the end offset of the match, or -1
AadhaarEnd(s, i) ==
    LET n == Len(s)
        g == AadhaarGroup
        behind == i = 0 \/ ~IsDigit(At(s, i - 1))
        ahead(e) == e >= n \/ At(s, e) \notin AadhaarAheadChars
        plain == RunOf(s, i, AadhaarDigits, DigitChars) /\ ahead(i + AadhaarDigits)
        e2 == i + 3 * g + 2
        grouped == /\ RunOf(s, i, g, DigitChars)
                   /\ i + g < n /\ At(s, i + g) \in AadhaarSeps
                   /\ RunOf(s, i + g + 1, g, DigitChars)
                   /\ i + 2 * g + 1 < n /\ At(s, i + 2 * g + 1) = At(s, i + g)
                   /\ RunOf(s, i + 2 * g + 2, g, DigitChars)
                   /\ ahead(e2)
    IN IF ~behind THEN -1
       ELSE IF plain THEN i + AadhaarDigits
       ELSE IF grouped THEN e2
       ELSE -1

\* \b[A-Z]{5}[0-9]{4}[A-Z]{1}\b tried at offset i
PanEnd(s, i) ==
    IF /\ WordBoundary(s, i)
       /\ RunOf(s, i, 5, UpperChars)
       /\ RunOf(s, i + 5, 4, DigitChars)
       /\ RunOf(s, i + 9, 1, UpperChars)
       /\ WordBoundary(s, i + 10)
    THEN i + 10 ELSE -1

CcMin == 13
CcMax == 19
CcSeps == {" ", "-"}

RECURSIVE CcIter(_, _, _, _)
RECURSIVE CcTail(_, _, _, _)
\* one more iteration of the group \d[ -]*? at offset p, c iterations done,
\* lo the least number of iterations
CcIter(s, p, c, lo) ==
    IF p < Len(s) /\ IsDigit(At(s, p)) THEN CcTail(s, p + 1, c + 1, lo) ELSE -1
\* after c iterations, the lazy separators of the last one consumed up to p:
\* the greedy repeat tries another iteration first, then the closing \b, and
\* only then lets the lazy [ -]*? take one more separator
CcTail(s, p, c, lo) ==
    LET more == IF c < CcMax THEN CcIter(s, p, c, lo) ELSE -1
    IN IF more # -1 THEN more
       ELSE IF c >= lo /\ WordBoundary(s, p) THEN p
       ELSE IF p < Len(s) /\ At(s, p) \in CcSeps THEN CcTail(s, p + 1, c, lo)
       ELSE -1

\* \b(?:\d[ -]*?){13,19}\b tried at offset i
CreditCardEnd(s, i) == IF WordBoundary(s, i) THEN CcIter(s, i, 0, CcMin) ELSE -1

PhoneFirstDigits == {"6", "7", "8", "9"}

\* \b[6-9]\d{9}\b tried at offset i
PhoneEnd(s, i) ==
    IF /\ WordBoundary(s, i)
       /\ RunOf(s, i, 1, PhoneFirstDigits)
       /\ RunOf(s, i + 1, 9, DigitChars)
       /\ WordBoundary(s, i + 10)
    THEN i + 10 ELSE -1

\* the class of the local part; the backquote it also holds cannot be written
\* in a string of this language, and no text of the model contains one
EmailLocalChars ==
    AlnumChars \cup {".", "!", "#", "$", "%", "&", "'", "*", "+", "/", "=", "?",
                     "^", "_", "{", "|", "}", "~", "-"}
EmailLabelChars == AlnumChars \cup {"-"}
\* the {0,61} of a domain label
EmailLabelMid == 61

RECURSIVE RunEnd(_, _, _)
\* the end of the longest run of characters of cls starting at offset p
RunEnd(s, p, cls) ==
    IF p < Len(s) /\ At(s, p) \in cls THEN RunEnd(s, p + 1, cls) ELSE p

RECURSIVE EmailRest(_, _)
RECURSIVE EmailLabelEnds(_, _, _)
\* a label that starts at offset p: [a-zA-Z0-9](?:[a-zA-Z0-9-]{0,61}[a-zA-Z0-9])?
\* followed by the rest of the pattern
EmailLabel(s, p) ==
    IF p < Len(s) /\ IsAlnum(At(s, p))
    THEN LET run == RunEnd(s, p + 1, EmailLabelChars)
             top == IF run > p + 2 + EmailLabelMid THEN p + 2 + EmailLabelMid ELSE run
         IN EmailLabelEnds(s, p, top)
    ELSE -1
\* the label ends e, e-1, ..., p+1 in the order the greedy quantifiers try them
EmailLabelEnds(s, p, e) ==
    IF e <= p THEN -1
    ELSE IF e = p + 1 \/ IsAlnum(At(s, e - 1))
         THEN LET r == EmailRest(s, e)
              IN IF r # -1 THEN r ELSE EmailLabelEnds(s, p, e - 1)
         ELSE EmailLabelEnds(s, p, e - 1)
\* (?:\.label)*\b at offset p
EmailRest(s, p) ==
    LET more == IF p < Len(s) /\ At(s, p) = "." THEN EmailLabel(s, p + 1) ELSE -1
    IN IF more # -1 THEN more
       ELSE IF WordBoundary(s, p) THEN p
       ELSE -1

\* the email pattern tried at offset i
EmailEnd(s, i) ==
    LET j == RunEnd(s, i, EmailLocalChars)
    IN IF WordBoundary(s, i) /\ j > i /\ j < Len(s) /\ At(s, j) = "@"
       THEN EmailLabel(s, j + 1)
       ELSE -1

\* patterns[t] tried at offset i: the end of the match or -1
MatchEnd(t, s, i) ==
    CASE t = K_aadhaar     -> AadhaarEnd(s, i)
      [] t = K_pan         -> PanEnd(s, i)
      [] t = K_credit_card -> CreditCardEnd(s, i)
      [] t = K_email       -> EmailEnd(s, i)
      [] t = K_phone       -> PhoneEnd(s, i)

RECURSIVE FindIter(_, _, _)
\* patterns[t].finditer(s) from offset pos: the leftmost non-overlapping
\* matches as (type, m.group(0), m.start(), m.end())
FindIter(t, s, pos) ==
    IF pos >= Len(s) THEN <<>>
    ELSE LET e == MatchEnd(t, s, pos)
         IN IF e # -1 THEN <<(<<t, Slice(s, pos, e), pos, e>>)>> \o FindIter(t, s, e)
            ELSE FindIter(t, s, pos + 1)

(***************************************************************************)
(* Detector (detection/detector.py)                                        *)
(***************************************************************************)
RECURSIVE CollectSpans(_, _)
\* the loop over patterns.items(): spans of the k-th and later patterns
CollectSpans(text, k) ==
    IF k > Len(PatternKeys) THEN <<>>
    ELSE FindIter(PatternKeys[k], text, 0) \o CollectSpans(text, k + 1)

\* span_results as first collected: (type, value, start, end)
RawSpans(text) == CollectSpans(text, 1)

TwelveDigits == 12

\* a credit_card span whose digits number exactly twelve
IsTwelveDigitCard(sp) == sp[1] = K_credit_card /\ Len(DigitsOnly(sp[2])) = TwelveDigits

\* the 12-digit rule
DropTwelveDigitCards(spans) == SelectSeq(spans, LAMBDA sp : ~IsTwelveDigitCard(sp))

\* credit_spans
CreditSpans(spans) == {<<spans[i][3], spans[i][4]>> : i \in {j \in DOMAIN spans : spans[j][1] = K_credit_card}}

\* the containment test with strict inequalities
IsContainedAadhaar_Strict(sp, credit) ==
    sp[1] = K_aadhaar /\ \E c \in credit : sp[3] > c[1] /\ sp[4] < c[2]

\* an aadhaar span that lies fully inside some credit card span
IsContainedAadhaar(sp, credit) ==
    sp[1] = K_aadhaar /\ \E c \in credit : sp[3] >= c[1] /\ sp[4] <= c[2]

\* the containment rule: filtered_spans
DropContainedAadhaar(spans) ==
    LET credit == CreditSpans(spans)
    IN SelectSeq(spans, LAMBDA sp : ~IsContainedAadhaar(sp, credit))

\* values_by_type[v]
TypesOfValue(spans, v) == {spans[i][1] : i \in {j \in DOMAIN spans : spans[j][2] = v}}

\* an aadhaar span whose string was also matched as credit_card
IsTiedAadhaar(sp, spans) ==
    /\ sp[1] = K_aadhaar
    /\ K_credit_card \in TypesOfValue(spans, sp[2])
    /\ K_aadhaar \in TypesOfValue(spans, sp[2])

\* the duplicate-string tie-break, spans kept
DropTiedAadhaar(spans) == SelectSeq(spans, LAMBDA sp : ~IsTiedAadhaar(sp, spans))

\* the three rules applied in turn to the collected spans (none: return [])
ResolveSpans(raw) ==
    IF raw = <<>> THEN <<>>
    ELSE DropTiedAadhaar(DropContainedAadhaar(DropTwelveDigitCards(raw)))

RECURSIVE FindLooseCards(_, _)
\* finditer of the card pattern written {12,19}
FindLooseCards(s, pos) ==
    IF pos >= Len(s) THEN <<>>
    ELSE LET e == IF WordBoundary(s, pos) THEN CcIter(s, pos, 0, TwelveDigits) ELSE -1
         IN IF e # -1 THEN <<(<<K_credit_card, Slice(s, pos, e), pos, e>>)>> \o FindLooseCards(s, e)
            ELSE FindLooseCards(s, pos + 1)

\* detect_pii without its three rules over a card pattern that starts at twelve
\* digits: every raw match is returned
FinalSpans_Loose(text) ==
    FindIter(K_aadhaar, text, 0) \o FindIter(K_pan, text, 0) \o FindLooseCards(text, 0)
        \o FindIter(K_email, text, 0) \o FindIter(K_phone, text, 0)

\* the spans behind final_list
FinalSpans(text) == ResolveSpans(RawSpans(text))

\* final_list of the spans kept: (type, value)
Pairs(spans) == [k \in DOMAIN spans |-> <<spans[k][1], spans[k][2]>>]

\* detect_pii(text): the list of (type, value)
detect_pii(text) == Pairs(FinalSpans(text))

(***************************************************************************)
(* Checksums (validation/algorithms.py)                                    *)
(***************************************************************************)
RECURSIVE LuhnSum(_, _)
\* the sum over the digits ds read from the right, every second one doubled
\* (k counts the digits already consumed)
LuhnSum(ds, k) ==
    IF ds = <<>> THEN 0
    ELSE LET d == DigitVal(ds[Len(ds)])
             dd == IF k % 2 = 1 THEN (IF 2 * d > 9 THEN 2 * d - 9 ELSE 2 * d) ELSE d
         IN dd + LuhnSum(SubSeq(ds, 1, Len(ds) - 1), k + 1)

\* luhn_check(value): mod-10 checksum over the digits, separators ignored
luhn_check(value) == LuhnSum(DigitsOnly(value), 0) % 10 = 0

VerhoeffD ==
    << <<0,1,2,3,4,5,6,7,8,9>>, <<1,2,3,4,0,6,7,8,9,5>>, <<2,3,4,0,1,7,8,9,5,6>>,
       <<3,4,0,1,2,8,9,5,6,7>>, <<4,0,1,2,3,9,5,6,7,8>>, <<5,9,8,7,6,0,4,3,2,1>>,
       <<6,5,9,8,7,1,0,4,3,2>>, <<7,6,5,9,8,2,1,0,4,3>>, <<8,7,6,5,9,3,2,1,0,4>>,
       <<9,8,7,6,5,4,3,2,1,0>> >>
VerhoeffP ==
    << <<0,1,2,3,4,5,6,7,8,9>>, <<1,5,7,6,2,8,3,0,9,4>>, <<5,8,0,3,7,9,6,1,4,2>>,
       <<8,9,1,6,0,4,3,5,2,7>>, <<9,4,5,3,1,2,6,8,7,0>>, <<4,2,8,6,5,7,3,9,0,1>>,
       <<2,7,9,3,8,0,6,4,1,5>>, <<7,0,4,6,9,1,3,2,5,8>> >>

RECURSIVE VerhoeffFold(_, _, _)
\* the checksum state after the digits ds read from the right (i digits consumed)
VerhoeffFold(ds, i, c) ==
    IF ds = <<>> THEN c
    ELSE VerhoeffFold(SubSeq(ds, 1, Len(ds) - 1), i + 1,
                      VerhoeffD[c + 1][VerhoeffP[(i % 8) + 1][DigitVal(ds[Len(ds)]) + 1] + 1])

\* verhoeff_check(digits)
verhoeff_check(ds) == VerhoeffFold(ds, 0, 0) = 0

(***************************************************************************)
(* Validators (validation/validators.py)                                   *)
(***************************************************************************)
UpperChar(c) == IF c \in LowerChars THEN UpperSeq[IndexIn(LowerSeq, c)] ELSE c
\* s.upper()
Upper(s) == [k \in DOMAIN s |-> UpperChar(s[k])]

LetterChars == UpperChars \cup LowerChars
PanLen == 10
PanWeights == <<1, 3, 7, 1, 3, 7, 1, 3, 7>>
PanEntityTypes == {"A", "B", "C", "F", "G", "H", "L", "J", "P", "T"}

\* the weighted value of the i-th character of the first nine
PanWeighted(ch, i) ==
    LET v == IF ch \in LetterChars
             THEN IndexIn(UpperSeq, UpperChar(ch)) - 1 + 10
             ELSE DigitVal(ch)
        w == v * PanWeights[i]
    IN IF w > 9 THEN (w \div 10) + (w % 10) ELSE w

RECURSIVE PanSum(_, _)
PanSum(pan, i) == IF i > 9 THEN 0 ELSE PanWeighted(pan[i], i) + PanSum(pan, i + 1)

\* expected_check_digit of the first nine characters
PanCheckLetter(pan) == UpperSeq[((10 - (PanSum(pan, 1) % 10)) % 10) + 1]

validate_pan_check_digit(pan) ==
    IF Len(pan) # PanLen THEN FALSE ELSE pan[10] = PanCheckLetter(pan)

\* ^[A-Z]{5}[0-9]{4}[A-Z]{1}$ on a string of ten characters
PanShape(pan) ==
    /\ RunOf(pan, 0, 5, UpperChars)
    /\ RunOf(pan, 5, 4, DigitChars)
    /\ RunOf(pan, 9, 1, UpperChars)

\* validate_pan(pan, surname) raises IndexError: surname.strip().upper()[0]
\* of a surname that is not empty but all whitespace
validate_pan_raises(pan, surname) ==
    LET q == Upper(Strip(pan))
    IN /\ pan # <<>>
       /\ Len(q) = PanLen /\ PanShape(q) /\ q[4] \in PanEntityTypes
       /\ q[4] = "P" /\ surname # <<>> /\ Strip(surname) = <<>>

\* validate_pan(pan, surname) where it returns; the empty surname stands for
\* an absent one as well (both are falsy)
validate_pan(pan, surname) ==
    LET q == Upper(Strip(pan))
    IN IF pan = <<>> THEN FALSE
       ELSE IF Len(q) # PanLen THEN FALSE
       ELSE IF ~PanShape(q) THEN FALSE
       ELSE IF q[4] \notin PanEntityTypes THEN FALSE
       ELSE IF q[4] = "P" /\ surname # <<>> /\ q[5] # Upper(Strip(surname))[1] THEN FALSE
       ELSE IF q[4] \in (PanEntityTypes \ {"P"}) /\ q[5] \notin LetterChars THEN FALSE
       ELSE validate_pan_check_digit(q)

EmailMinLen == 5
EmailMaxLen == 254
EmailMaxLocal == 64
EmailMaxDomain == 253
EmailMinTld == 2
EmailValidLocalChars ==
    AlnumChars \cup {".", "!", "#", "$", "%", "&", "'", "*", "+", "/", "=", "?",
                     "^", "_", "{", "|", "}", "~", "-"}
EmailValidDomainChars == AlnumChars \cup {".", "-"}

\* the offset of the first c in s, or Len(s)
FirstIndexOf(s, c) ==
    IF \E i \in DOMAIN s : s[i] = c
    THEN (CHOOSE i \in DOMAIN s : s[i] = c /\ \A j \in 1..(i - 1) : s[j] # c) - 1
    ELSE Len(s)
\* the offset just after the last c in s, or 0
AfterLastIndexOf(s, c) ==
    IF \E i \in DOMAIN s : s[i] = c
    THEN CHOOSE i \in DOMAIN s : s[i] = c /\ \A j \in (i + 1)..Len(s) : s[j] # c
    ELSE 0

HasDoubleDot(s) == \E i \in 1..(Len(s) - 1) : s[i] = "." /\ s[i + 1] = "."

validate_email(email) ==
    LET e == Strip(email)
        at == FirstIndexOf(e, "@")
        local_part == Prefix(e, at)
        domain_part == Slice(e, at + 1, Len(e))
        tld == Slice(domain_part, AfterLastIndexOf(domain_part, "."), Len(domain_part))
    IN IF email = <<>> THEN FALSE
       ELSE IF Len(e) < EmailMinLen \/ Len(e) > EmailMaxLen THEN FALSE
       ELSE IF CountChar(e, "@") # 1 THEN FALSE
       ELSE IF Len(local_part) < 1 \/ Len(local_part) > EmailMaxLocal THEN FALSE
       ELSE IF Len(domain_part) < 1 \/ Len(domain_part) > EmailMaxDomain THEN FALSE
       ELSE IF HasDoubleDot(e) THEN FALSE
       ELSE IF \E i \in DOMAIN local_part : local_part[i] \notin EmailValidLocalChars THEN FALSE
       ELSE IF \E i \in DOMAIN domain_part : domain_part[i] \notin EmailValidDomainChars THEN FALSE
       ELSE IF CountChar(domain_part, ".") = 0 THEN FALSE
       ELSE IF \/ domain_part[1] \in {".", "-"}
               \/ domain_part[Len(domain_part)] \in {".", "-"} THEN FALSE
       ELSE IF Len(tld) < EmailMinTld THEN FALSE
       ELSE TRUE

AadhaarFirstDigits == {"2", "3", "4", "5", "6", "7", "8", "9"}
CardMinDigits == 13
CardMaxDigits == 19
PhoneDigits == 10

\* is_valid_pii accepting cards of 13 to 16 digits only
is_valid_pii_UpTo16(pii_type, value) ==
    LET digits_only == DigitsOnly(value)
        mapped_type == MappedType(pii_type)
    IN IF mapped_type = K_aadhaar
       THEN /\ Len(digits_only) = AadhaarDigits
            /\ digits_only[1] \in AadhaarFirstDigits
            /\ verhoeff_check(digits_only)
       ELSE IF mapped_type = K_pan THEN validate_pan(value, <<>>)
       ELSE IF mapped_type = K_credit_card
       THEN /\ CardMinDigits <= Len(digits_only) /\ Len(digits_only) <= 16
            /\ luhn_check(value)
       ELSE IF mapped_type = K_email THEN validate_email(value)
       ELSE IF mapped_type = K_phone
       THEN /\ Len(digits_only) = PhoneDigits
            /\ digits_only[1] \in PhoneFirstDigits
       ELSE FALSE

\* is_valid_pii without the rule on the first Aadhaar digit
is_valid_pii_AnyFirst(pii_type, value) ==
    LET digits_only == DigitsOnly(value)
        mapped_type == MappedType(pii_type)
    IN IF mapped_type = K_aadhaar
       THEN /\ Len(digits_only) = AadhaarDigits
            /\ verhoeff_check(digits_only)
       ELSE IF mapped_type = K_pan THEN validate_pan(value, <<>>)
       ELSE IF mapped_type = K_credit_card
       THEN /\ CardMinDigits <= Len(digits_only) /\ Len(digits_only) <= CardMaxDigits
            /\ luhn_check(value)
       ELSE IF mapped_type = K_email THEN validate_email(value)
       ELSE IF mapped_type = K_phone
       THEN /\ Len(digits_only) = PhoneDigits
            /\ digits_only[1] \in PhoneFirstDigits
       ELSE FALSE

\* is_valid_pii(pii_type, value) for a type string and a str value
is_valid_pii(pii_type, value) ==
    LET digits_only == DigitsOnly(value)
        mapped_type == MappedType(pii_type)
    IN IF mapped_type = K_aadhaar
       THEN /\ Len(digits_only) = AadhaarDigits
            /\ digits_only[1] \in AadhaarFirstDigits
            /\ verhoeff_check(digits_only)
       ELSE IF mapped_type = K_pan THEN validate_pan(value, <<>>)
       ELSE IF mapped_type = K_credit_card
       THEN /\ CardMinDigits <= Len(digits_only) /\ Len(digits_only) <= CardMaxDigits
            /\ luhn_check(value)
       ELSE IF mapped_type = K_email THEN validate_email(value)
       ELSE IF mapped_type = K_phone
       THEN /\ Len(digits_only) = PhoneDigits
            /\ digits_only[1] \in PhoneFirstDigits
       ELSE FALSE

RECURSIVE AnyValid(_, _)
\* the loop "for pii_type, match in detections: if is_valid_pii(...)": true as
\* soon as the k-th or a later candidate validates
AnyValid(detections, k) ==
    IF k > Len(detections) THEN FALSE
    ELSE IF is_valid_pii(detections[k][1], detections[k][2]) THEN TRUE
    ELSE AnyValid(detections, k + 1)

\* any_true_pii returning after the first candidate, whatever it is
any_true_pii_First(text) ==
    IF text = <<>> THEN FALSE
    ELSE LET d == detect_pii(text)
         IN d # <<>> /\ is_valid_pii(d[1][1], d[1][2])

\* any_true_pii(text)
any_true_pii(text) == IF text = <<>> THEN FALSE ELSE AnyValid(detect_pii(text), 1)

(***************************************************************************)
(* Masking (deidentification/masking.py, deidentifier.mask_pii)            *)
(***************************************************************************)
S_X4 == <<"X","X","X","X">>
S_CardMask == <<"X","X","X","X","-","X","X","X","X","-","X","X","X","X","-">>

\* value.split("@") gives exactly two parts
SplitsInTwo(value) == CountChar(value, "@") = 1
\* the two parts of such a split
BeforeAt(value) == Prefix(value, FirstIndexOf(value, "@"))
AfterAt(value) == Slice(value, FirstIndexOf(value, "@") + 1, Len(value))

mask_aadhaar(aadhaar) ==
    IF Len(DigitsOnly(aadhaar)) = AadhaarDigits
    THEN Prefix(aadhaar, 4) \o <<"-">> \o S_X4 \o <<"-">> \o Suffix(aadhaar, 4)
    ELSE aadhaar

\* mask_pan without the length test
mask_pan_AnyLength(pan) == Prefix(pan, 5) \o <<"*","*","*","*">> \o Suffix(pan, 1)

mask_pan(pan) ==
    IF Len(pan) = PanLen
    THEN Prefix(pan, 5) \o <<"*","*","*","*">> \o Suffix(pan, 1)
    ELSE pan

mask_credit_card(card_number) ==
    LET digits_only == DigitsOnly(card_number)
    IN IF Len(digits_only) < CardMinDigits THEN card_number
       ELSE S_CardMask \o Suffix(digits_only, 4)

\* mask_email with a user name of four x whatever its length
mask_email_FourX(email) ==
    IF SplitsInTwo(email)
    THEN Repeat("x", 4) \o <<"@">> \o AfterAt(email)
    ELSE email

mask_email(email) ==
    IF SplitsInTwo(email)
    THEN Repeat("x", Len(BeforeAt(email))) \o <<"@">> \o AfterAt(email)
    ELSE email

mask_phone(phone) ==
    LET digits == DigitsOnly(phone)
    IN IF Len(digits) = PhoneDigits
       THEN <<"X","X","X","X","X","X">> \o Suffix(digits, 4)
       ELSE Repeat("X", 10)

mask_pii(pii_type, value) ==
    LET mapped_type == MappedType(pii_type)
    IN CASE mapped_type = K_aadhaar     -> mask_aadhaar(value)
         [] mapped_type = K_pan         -> mask_pan(value)
         [] mapped_type = K_credit_card -> mask_credit_card(value)
         [] mapped_type = K_email       -> mask_email(value)
         [] mapped_type = K_phone       -> mask_phone(value)
         [] OTHER                       -> value

(***************************************************************************)
(* The random module: a seeded generator whose state every draw advances.  *)
(* The generator of the model is a small congruential one; its modulus     *)
(* bounds the number of distinct random sequences the model can see.       *)
(***************************************************************************)
RngMod == 64
RngSeeds == 2

RngStep(r) == (5 * r + 3) % RngMod
\* the element a draw picks from a population of n elements in state r
RngPick(r, n) == ((r * n) \div RngMod) + 1

RECURSIVE Choices(_, _, _)
\* random.choices(pop, k=k) from generator state r: the string drawn
Choices(pop, k, r) ==
    IF k = 0 THEN <<>> ELSE <<pop[RngPick(r, Len(pop))]>> \o Choices(pop, k - 1, RngStep(r))
RECURSIVE RngAfter(_, _)
\* the generator state after k draws
RngAfter(r, k) == IF k = 0 THEN r ELSE RngAfter(RngStep(r), k - 1)

\* string.ascii_letters + string.digits
LettersAndDigits == LowerSeq \o UpperSeq \o DigitSeq

(***************************************************************************)
(* Anonymization (deidentification/anonymization.py)                       *)
(***************************************************************************)
\* random_string(length) from generator state r
random_string(length, r) == Choices(LettersAndDigits, length, r)

\* anonymize_pii(pii_type, value) from generator state r: the string returned
\* and the number of draws made
anonymize_pii(pii_type, value, r) ==
    LET mapped_type == MappedType(pii_type)
    IN CASE mapped_type = K_credit_card -> [ret |-> random_string(16, r), draws |-> 16]
         [] mapped_type = K_email ->
              [ret |-> random_string(8, r) \o <<"@">> \o random_string(5, RngAfter(r, 8))
                       \o <<".","c","o","m">>,
               draws |-> 13]
         [] mapped_type = K_aadhaar -> [ret |-> random_string(12, r), draws |-> 12]
         [] mapped_type = K_pan ->
              [ret |-> Upper(random_string(5, r)) \o random_string(4, RngAfter(r, 5))
                       \o Upper(random_string(1, RngAfter(r, 9))),
               draws |-> 10]
         [] mapped_type = K_phone -> [ret |-> <<"9">> \o random_string(9, r), draws |-> 9]
         [] OTHER -> [ret |-> random_string(10, r), draws |-> 10]

(***************************************************************************)
(* Pseudonymization and selective de-identification                        *)
(* (deidentification/pseudonymization.py).  The module state is passed as  *)
(* a record st = [counters, maps, sel_init, sel_map, sel_counter, rng];    *)
(* every operation gives [raised, ret, st]: whether it raised, the string  *)
(* it returned and the state it left.                                      *)
(***************************************************************************)
S_gmail == <<"g","m","a","i","l",".","c","o","m">>
S_user  == <<"u","s","e","r">>

EmptyMap == <<>>

\* the module state right after import
FreshCounters == [t \in PatternKeySet |-> 1]
FreshMaps == [t \in PatternKeySet |-> EmptyMap]

Returned(v, st) == [raised |-> FALSE, ret |-> v, st |-> st]
Raised(st) == [raised |-> TRUE, ret |-> <<>>, st |-> st]

\* m[k] = v on a dict
Put(m, k, v) == [x \in (DOMAIN m) \cup {k} |-> IF x = k THEN v ELSE m[x]]

\* the domain the email branch keeps: value.strip().split("@") unpacked into
\* two names, "gmail.com" when that raises
EmailDomainOf(value) ==
    LET e == Strip(value) IN IF SplitsInTwo(e) THEN AfterAt(e) ELSE S_gmail

\* pseudo_anonymize without the membership test: every call takes a new counter
pseudo_anonymize_NoReuse(st, value, pii_type) ==
    IF pii_type \notin DOMAIN st.maps THEN Raised(st)
    ELSE LET repl == pii_type \o <<"_">> \o IntToStr(st.counters[pii_type])
         IN Returned(repl, [st EXCEPT !.maps[pii_type] = Put(@, value, repl),
                                      !.counters[pii_type] = @ + 1])

\* pseudo_anonymize(value, pii_type); pseudo_maps[pii_type] of a key that is
\* no pattern key raises KeyError
pseudo_anonymize(st, value, pii_type) ==
    IF pii_type \notin DOMAIN st.maps THEN Raised(st)
    ELSE IF value \notin DOMAIN st.maps[pii_type]
    THEN LET repl == pii_type \o <<"_">> \o IntToStr(st.counters[pii_type])
             st2 == [st EXCEPT !.maps[pii_type] = Put(@, value, repl),
                               !.counters[pii_type] = @ + 1]
         IN Returned(repl, st2)
    ELSE Returned(st.maps[pii_type][value], st)

pseudo_anonymize_pii(st, pii_type, value) ==
    LET mapped_type == MappedType(pii_type)
    IN IF mapped_type = K_email
       THEN IF value \notin DOMAIN st.maps[K_email]
            THEN LET repl == S_user \o IntToStr(st.counters[K_email]) \o <<"@">>
                             \o EmailDomainOf(value)
                     st2 == [st EXCEPT !.maps[K_email] = Put(@, value, repl),
                                       !.counters[K_email] = @ + 1]
                 IN Returned(repl, st2)
            ELSE Returned(st.maps[K_email][value], st)
       ELSE pseudo_anonymize(st, value, mapped_type)

\* the hasattr initialisation at the head of selective_deidentify
SelectiveInit(st) ==
    IF st.sel_init THEN st
    ELSE [st EXCEPT !.sel_init = TRUE, !.sel_map = EmptyMap, !.sel_counter = 1]

\* selective_deidentify numbering its emails with pseudo_counters["email"]
selective_deidentify_Shared(st0, pii_type, value) ==
    LET st == SelectiveInit(st0)
        lowered == Lower(pii_type)
        digits == DigitsOnly(value)
    IN CASE lowered = K_credit_card ->
              IF Len(digits) < CardMinDigits THEN Returned(value, st)
              ELSE Returned(S_CardMask \o Suffix(digits, 4), st)
         [] lowered = K_email ->
              IF value \notin DOMAIN st.sel_map
              THEN LET pseudo_email == K_email \o IntToStr(st.counters[K_email]) \o <<"@">>
                                       \o EmailDomainOf(value)
                       st2 == [st EXCEPT !.sel_map = Put(@, value, pseudo_email),
                                         !.counters[K_email] = @ + 1]
                   IN Returned(pseudo_email, st2)
              ELSE Returned(st.sel_map[value], st)
         [] lowered = K_aadhaar ->
              IF Len(digits) = AadhaarDigits
              THEN Returned(Prefix(digits, 4) \o S_X4 \o Slice(digits, 8, Len(digits)), st)
              ELSE Returned(value, st)
         [] lowered = K_pan ->
              Returned(Choices(UpperSeq, 5, st.rng)
                         \o Choices(DigitSeq, 4, RngAfter(st.rng, 5))
                         \o Choices(UpperSeq, 1, RngAfter(st.rng, 9)),
                       [st EXCEPT !.rng = RngAfter(@, 10)])
         [] OTHER -> Returned(value, st)

selective_deidentify(st0, pii_type, value) ==
    LET st == SelectiveInit(st0)
        lowered == Lower(pii_type)
        digits == DigitsOnly(value)
    IN CASE lowered = K_credit_card ->
              IF Len(digits) < CardMinDigits THEN Returned(value, st)
              ELSE Returned(S_CardMask \o Suffix(digits, 4), st)
         [] lowered = K_email ->
              IF value \notin DOMAIN st.sel_map
              THEN LET pseudo_email == K_email \o IntToStr(st.sel_counter) \o <<"@">>
                                       \o EmailDomainOf(value)
                       st2 == [st EXCEPT !.sel_map = Put(@, value, pseudo_email),
                                         !.sel_counter = @ + 1]
                   IN Returned(pseudo_email, st2)
              ELSE Returned(st.sel_map[value], st)
         [] lowered = K_aadhaar ->
              IF Len(digits) = AadhaarDigits
              THEN Returned(Prefix(digits, 4) \o S_X4 \o Slice(digits, 8, Len(digits)), st)
              ELSE Returned(value, st)
         [] lowered = K_pan ->
              Returned(Choices(UpperSeq, 5, st.rng)
                         \o Choices(DigitSeq, 4, RngAfter(st.rng, 5))
                         \o Choices(UpperSeq, 1, RngAfter(st.rng, 9)),
                       [st EXCEPT !.rng = RngAfter(@, 10)])
         [] OTHER -> Returned(value, st)

(***************************************************************************)
(* Dispatch (deidentification/deidentifier.py)                             *)
(***************************************************************************)
M_Masking   == "Masking"
M_Anonymize == "Anonymization"
M_Pseudo    == "Pseudo-Anonymization"
M_Selective == "Selective"
Methods == {M_Masking, M_Anonymize, M_Pseudo, M_Selective}

deidentify_value(st, method, pii_type, value) ==
    CASE method = M_Masking -> Returned(mask_pii(pii_type, value), st)
      [] method = M_Anonymize ->
           LET a == anonymize_pii(pii_type, value, st.rng)
           IN Returned(a.ret, [st EXCEPT !.rng = RngAfter(@, a.draws)])
      [] method = M_Pseudo -> pseudo_anonymize_pii(st, pii_type, value)
      [] method = M_Selective -> selective_deidentify(st, pii_type, value)
      [] OTHER -> Returned(value, st)

(***************************************************************************)
(* Inputs of the model                                                     *)
(***************************************************************************)
MaxRuns == 2
MaxRows == 2
MaxCols == 1
\* the columns of the widest dataframe of the model
TableCols == 2
MaxCalls == 2

T_phone1  == <<"9","8","7","6","5","4","3","2","1","0">>
T_phone2  == <<"9","8","7","6","5","4","3","2","1","1">>
T_email1  == <<"a","@","b",".","c","c">>
T_email2  == <<"b","@","d",".","c","c">>
T_plain   == <<"h","e","l","l","o">>
\* twelve digits that fail the aadhaar validator
T_digits  == <<"1","2","3","4","5","6","7","8","9","0","1","2">>
T_aadhaar == <<"2","3","4","5","6","7","8","9","0","1","2","4">>
T_pan     == <<"A","B","C","P","E","1","2","3","4","A">>
T_card    == <<"2","3","4","5","6","7","8","9","0","1","2","4","1","0","0","3">>
\* no '@' at all
T_noat    == <<"a","b">>

\* the cell texts of the model
CellTexts ==
    { T_phone1, T_phone2, T_email1, T_email2, T_plain, T_digits,
      T_digits \o <<" ">> \o T_phone1,
      T_phone1 \o <<"@","b",".","c","c">>,
      T_aadhaar, T_pan, T_card,
      T_email1 \o <<" ">> \o T_phone1,
      T_phone1 \o <<"@","b",".","c","c"," ">> \o T_phone1 }

\* a strategy name that is none of the four
M_Other == "Hashing"
K_unknown == <<"s","s","n">>
\* the type strings of direct calls: keys, display labels, an unknown one
TypeInputs == PatternKeySet \cup DOMAIN TYPE_MAPPING \cup {K_unknown}
\* the values of direct calls
ValueInputs == {T_phone1, T_phone2, T_email1, T_email2, T_noat, T_card}

\* detect_pii, any_true_pii and is_valid_pii tabulated over the cell texts and
\* their candidates (each is a function of its arguments alone)
AllTexts == CellTexts
DetectTable == [t \in AllTexts |-> detect_pii(t)]
TruthTable == [t \in AllTexts |-> any_true_pii(t)]
CandidateSet == UNION {Range(DetectTable[t]) : t \in AllTexts}
ValidTable == [d \in CandidateSet |-> is_valid_pii(d[1], d[2])]

Detect(text) == DetectTable[text]
GroundTruth(text) == TruthTable[text]
IsValid(pii_type, value) == ValidTable[<<pii_type, value>>]

(***************************************************************************)
(* The per-cell work of analyze_dataframe (main.py)                        *)
(***************************************************************************)
RECURSIVE ValidDetectionFrom(_, _)
\* the loop that sets valid_detection and breaks at the first valid candidate
ValidDetectionFrom(detections, k) ==
    IF k > Len(detections) THEN FALSE
    ELSE IF IsValid(detections[k][1], detections[k][2]) THEN TRUE
    ELSE ValidDetectionFrom(detections, k + 1)

\* the if-chain with its last branch counting FN
Classify_LastFN(has_detection, valid_detection, has_ground_truth) ==
    IF has_detection
    THEN IF valid_detection /\ has_ground_truth THEN "TP"
         ELSE IF valid_detection /\ ~has_ground_truth THEN "FP"
         ELSE "FN"
    ELSE IF has_ground_truth THEN "FN" ELSE "TN"

\* the metrics key the if-chain increments
Classify(has_detection, valid_detection, has_ground_truth) ==
    IF has_detection
    THEN IF valid_detection /\ has_ground_truth THEN "TP"
         ELSE IF valid_detection /\ ~has_ground_truth THEN "FP"
         ELSE IF ~valid_detection /\ has_ground_truth THEN "FN"
         ELSE "FP"
    ELSE IF has_ground_truth THEN "FN" ELSE "TN"

RECURSIVE InsertByLen(_, _)
\* d put into a list sorted by decreasing length of the matched string, after
\* every element that is at least as long
InsertByLen(sorted, d) ==
    IF sorted = <<>> THEN <<d>>
    ELSE IF Len(Head(sorted)[2]) >= Len(d[2]) THEN <<Head(sorted)>> \o InsertByLen(Tail(sorted), d)
    ELSE <<d>> \o sorted
\* the detections left in the detector's order
SortByLenDesc_Unsorted(detections, k) == SubSeq(detections, 1, k)

RECURSIVE SortByLenDesc(_, _)
\* detections.sort(key=lambda x: len(x[1]), reverse=True): stable
SortByLenDesc(detections, k) ==
    IF k = 0 THEN <<>> ELSE InsertByLen(SortByLenDesc(detections, k - 1), detections[k])

RECURSIVE ReSub(_, _, _)
\* re.sub(re.escape(match), repl, text): every non-overlapping occurrence of
\* match, leftmost first, replaced (no replacement of the model holds a backslash)
ReSub(match, repl, text) ==
    IF Len(text) < Len(match) THEN text
    ELSE IF Prefix(text, Len(match)) = match
         THEN repl \o ReSub(match, repl, Slice(text, Len(match), Len(text)))
         ELSE <<Head(text)>> \o ReSub(match, repl, Tail(text))

\* the state of the replacement loop before its first iteration
LoopStart(value, st) ==
    [text |-> value, replaced |-> {}, st |-> st, count |-> 0, calls |-> <<>>, raised |-> FALSE]

RECURSIVE ReplaceLoop_Unchecked(_, _, _, _)
\* the replacement loop without the is_valid_pii test
ReplaceLoop_Unchecked(m, detections, k, acc) ==
    IF k > Len(detections) \/ acc.raised THEN acc
    ELSE LET pii_type == detections[k][1]
             match == detections[k][2]
         IN IF \E rm \in acc.replaced : IsSubstring(match, rm)
            THEN ReplaceLoop_Unchecked(m, detections, k + 1, acc)
            ELSE LET r == deidentify_value(acc.st, m, pii_type, match)
                 IN IF r.raised THEN [acc EXCEPT !.raised = TRUE]
                    ELSE ReplaceLoop_Unchecked(m, detections, k + 1,
                           [text |-> ReSub(match, r.ret, acc.text),
                            replaced |-> acc.replaced \cup {match},
                            st |-> r.st,
                            count |-> acc.count + 1,
                            calls |-> Append(acc.calls, <<pii_type, match, r.ret>>),
                            raised |-> FALSE])

RECURSIVE ReplaceLoop_CountChanged(_, _, _, _)
\* the replacement loop counting only the replacements that changed the match
ReplaceLoop_CountChanged(m, detections, k, acc) ==
    IF k > Len(detections) \/ acc.raised THEN acc
    ELSE LET pii_type == detections[k][1]
             match == detections[k][2]
         IN IF \E rm \in acc.replaced : IsSubstring(match, rm)
            THEN ReplaceLoop_CountChanged(m, detections, k + 1, acc)
            ELSE IF ~IsValid(pii_type, match)
            THEN ReplaceLoop_CountChanged(m, detections, k + 1, acc)
            ELSE LET r == deidentify_value(acc.st, m, pii_type, match)
                 IN IF r.raised THEN [acc EXCEPT !.raised = TRUE]
                    ELSE ReplaceLoop_CountChanged(m, detections, k + 1,
                           [text |-> ReSub(match, r.ret, acc.text),
                            replaced |-> acc.replaced \cup {match},
                            st |-> r.st,
                            count |-> IF r.ret = match THEN acc.count ELSE acc.count + 1,
                            calls |-> Append(acc.calls, <<pii_type, match, r.ret>>),
                            raised |-> FALSE])

RECURSIVE ReplaceLoop(_, _, _, _)
\* the loop over the sorted detections from the k-th on; acc holds
\* original_value, replaced_matches, the module state, the replacements
\* counted for the column and the de-identification calls made
ReplaceLoop(m, detections, k, acc) ==
    IF k > Len(detections) \/ acc.raised THEN acc
    ELSE LET pii_type == detections[k][1]
             match == detections[k][2]
         IN IF \E rm \in acc.replaced : IsSubstring(match, rm)
            THEN ReplaceLoop(m, detections, k + 1, acc)
            ELSE IF ~IsValid(pii_type, match)
            THEN ReplaceLoop(m, detections, k + 1, acc)
            ELSE LET r == deidentify_value(acc.st, m, pii_type, match)
                 IN IF r.raised THEN [acc EXCEPT !.raised = TRUE]
                    ELSE ReplaceLoop(m, detections, k + 1,
                           [text |-> ReSub(match, r.ret, acc.text),
                            replaced |-> acc.replaced \cup {match},
                            st |-> r.st,
                            count |-> acc.count + 1,
                            calls |-> Append(acc.calls, <<pii_type, match, r.ret>>),
                            raised |-> FALSE])

\* what the replacement loop leaves of the cell (the cell as it was when
\* nothing was detected)
CellLoop(m, value, detections, st) ==
    IF detections # <<>>
    THEN ReplaceLoop(m, SortByLenDesc(detections, Len(detections)), 1, LoopStart(value, st))
    ELSE LoopStart(value, st)

\* the iteration as a record of its locals and of what the loop left
CellRecord(value, detections, has_detection, valid_detection, has_ground_truth, loop) ==
    [value |-> value,
     detections |-> detections,
     has_detection |-> has_detection,
     valid_detection |-> valid_detection,
     has_ground_truth |-> has_ground_truth,
     outcome |-> Classify(has_detection, valid_detection, has_ground_truth),
     output |-> loop.text,
     count |-> loop.count,
     calls |-> loop.calls,
     raised |-> loop.raised,
     st |-> loop.st]

\* the iteration once detect_pii has answered
CellAfterDetect(m, value, st, detections) ==
    CellRecord(value, detections, detections # <<>>,
               detections # <<>> /\ ValidDetectionFrom(detections, 1),
               GroundTruth(value),
               CellLoop(m, value, detections, st))

\* one iteration of the cell loop on the cell text value under method m:
\* what it detects, how it classifies the cell and what the replacement
\* loop leaves
CellResult(m, value, st) == CellAfterDetect(m, value, st, Detect(value))

(***************************************************************************)
(* State                                                                   *)
(***************************************************************************)
VARIABLES
    pseudo_counters,    \* pseudonymization.pseudo_counters
    pseudo_maps,        \* pseudonymization.pseudo_maps
    sel_init,           \* selective_deidentify has its two attributes
    sel_email_map,      \* selective_deidentify.email_map
    sel_email_counter,  \* selective_deidentify.email_counter
    rng,                \* the state of the random module's generator
    pc,                 \* "idle", or "running" inside analyze_dataframe, or "failed"
    method,             \* the method of the current or last run
    nrows, ncols,       \* the shape of its dataframe
    col, idx,           \* the cell the loops are at
    done,               \* cells processed in this run
    metrics,            \* metrics of the run
    summary,            \* pii_detection_summary of the run
    cell,               \* what the last iteration saw and did
    runs,               \* analyze_dataframe runs started
    call,               \* the last direct deidentify_value call and its result
    ncalls,             \* direct calls made
    obs,                \* record of the replacements handed out
    dtext, dres,        \* a text given to the detector alone, and what it gave
    vcall,              \* the last direct call of a validator and its result
    th                  \* per thread: where it is in a Pseudo-Anonymization call

modvars == <<pseudo_counters, pseudo_maps, sel_init, sel_email_map, sel_email_counter, rng>>
runvars == <<pc, method, nrows, ncols, col, idx, done, metrics, summary, cell, runs>>
detvars == <<dtext, dres, vcall, th>>
vars == <<pseudo_counters, pseudo_maps, sel_init, sel_email_map, sel_email_counter, rng,
          pc, method, nrows, ncols, col, idx, done, metrics, summary, cell, runs,
          call, ncalls, obs, dtext, dres, vcall, th>>

\* the module state as the record the operations take
ModState ==
    [counters |-> pseudo_counters, maps |-> pseudo_maps, sel_init |-> sel_init,
     sel_map |-> sel_email_map, sel_counter |-> sel_email_counter, rng |-> rng]

SetModState(st) ==
    /\ pseudo_counters' = st.counters
    /\ pseudo_maps' = st.maps
    /\ sel_init' = st.sel_init
    /\ sel_email_map' = st.sel_map
    /\ sel_email_counter' = st.sel_counter
    /\ rng' = st.rng

NoCell == [value |-> <<>>, detections |-> <<>>, has_detection |-> FALSE,
           valid_detection |-> FALSE, has_ground_truth |-> FALSE, outcome |-> "none",
           output |-> <<>>, count |-> 0, calls |-> <<>>, col |-> 0, idx |-> 0]
NoCall == [method |-> "none", pii_type |-> <<>>, value |-> <<>>, raised |-> FALSE, ret |-> <<>>]
NoVCall == [fn |-> "none", pii_type |-> <<>>, value |-> <<>>, surname |-> <<>>,
            called |-> FALSE, raised |-> FALSE, ret |-> FALSE]
\* the threads (user sessions) that share the module, none of them in a call
Threads == {1, 2}
NoThread == [pc |-> "idle", pii_type |-> <<>>, value |-> <<>>, was_new |-> FALSE,
             repl |-> <<>>, ret |-> <<>>]
NoThreads == [i \in Threads |-> NoThread]
ZeroMetrics == [TP |-> 0, TN |-> 0, FP |-> 0, FN |-> 0]
NoDet == [detected |-> FALSE, raw |-> <<>>, twelve |-> <<>>, filtered |-> <<>>,
          final |-> <<>>, out |-> <<>>,
          judged |-> FALSE, truth |-> FALSE]

(***************************************************************************)
(* The record of replacements handed out: which (strategy, type, value)    *)
(* got which string, and the distinct values each consistent strategy was  *)
(* given, in first-seen order, since import and since the run began; and   *)
(* the number of de-identification calls made for each column of the run   *)
(***************************************************************************)
NoRunSeen == [t \in PatternKeySet |-> <<>>]
NoColCalls == [c \in 1..TableCols |-> 0]
NoObs == [issued |-> {}, pseudo_seen |-> NoRunSeen, sel_seen |-> <<>>,
          run_pseudo |-> NoRunSeen, run_sel |-> <<>>, col_calls |-> NoColCalls]

AppendNew(seq, x) == IF x \in Range(seq) THEN seq ELSE Append(seq, x)
AppendFirst(seq, v, ret) ==
    IF \E i \in DOMAIN seq : seq[i][1] = v THEN seq ELSE Append(seq, <<v, ret>>)

\* o after a call deidentify_value(m, pii_type, value) that returned ret
Observe(o, m, pii_type, value, ret) ==
    IF m = M_Pseudo /\ MappedType(pii_type) \in PatternKeySet
    THEN LET t == MappedType(pii_type)
         IN [o EXCEPT !.issued = @ \cup {<<m, t, value, ret>>},
                      !.pseudo_seen[t] = AppendNew(@, value),
                      !.run_pseudo[t] = AppendFirst(@, value, ret)]
    ELSE IF m = M_Selective /\ Lower(pii_type) = K_email
    THEN [o EXCEPT !.issued = @ \cup {<<m, K_email, value, ret>>},
                   !.sel_seen = AppendNew(@, value),
                   !.run_sel = AppendFirst(@, value, ret)]
    ELSE o

RECURSIVE ObserveAll(_, _, _, _)
\* o after the calls the replacement loop made, from the k-th on
ObserveAll(o, m, calls, k) ==
    IF k > Len(calls) THEN o
    ELSE ObserveAll(Observe(o, m, calls[k][1], calls[k][2], calls[k][3]), m, calls, k + 1)

(***************************************************************************)
(* The application: analyze_dataframe runs over dataframes whose cells are *)
(* drawn from CellTexts, and direct calls of deidentify_value between runs *)
(***************************************************************************)
Init ==
    /\ pseudo_counters = FreshCounters
    /\ pseudo_maps = FreshMaps
    /\ sel_init = FALSE
    /\ sel_email_map = EmptyMap
    /\ sel_email_counter = 0
    /\ rng \in 0..(RngSeeds - 1)
    /\ pc = "idle"
    /\ method = "none"
    /\ nrows = 0 /\ ncols = 0 /\ col = 0 /\ idx = 0 /\ done = 0
    /\ metrics = ZeroMetrics
    /\ summary = EmptyMap
    /\ cell = NoCell
    /\ runs = 0
    /\ call = NoCall
    /\ ncalls = 0
    /\ obs = NoObs
    /\ dtext = <<>>
    /\ dres = NoDet
    /\ vcall = NoVCall
    /\ th = NoThreads

\* analyze_dataframe(df, method) is entered with a dataframe of r rows and c columns
StartRun(m, r, c) ==
    /\ pc = "idle"
    /\ runs < MaxRuns
    /\ pc' = "running"
    /\ method' = m
    /\ nrows' = r /\ ncols' = c
    /\ col' = 1 /\ idx' = 0 /\ done' = 0
    /\ metrics' = ZeroMetrics
    /\ summary' = EmptyMap
    /\ cell' = NoCell
    /\ runs' = runs + 1
    /\ obs' = [obs EXCEPT !.run_pseudo = NoRunSeen, !.run_sel = <<>>,
                          !.col_calls = NoColCalls]
    /\ UNCHANGED <<modvars, call, ncalls, detvars>>

\* the effects of an iteration, the column counted once for a cell with replacements
CellEffects_OncePerCell(res) ==
    /\ SetModState(res.st)
    /\ metrics' = [metrics EXCEPT ![res.outcome] = @ + 1]
    /\ summary' = IF res.count > 0
                  THEN Put(summary, col,
                           (IF col \in DOMAIN summary THEN summary[col] ELSE 0) + 1)
                  ELSE summary
    /\ cell' = [value |-> res.value, detections |-> res.detections,
                has_detection |-> res.has_detection,
                valid_detection |-> res.valid_detection,
                has_ground_truth |-> res.has_ground_truth,
                outcome |-> res.outcome, output |-> res.output,
                count |-> res.count, calls |-> res.calls,
                col |-> col, idx |-> idx]
    /\ obs' = [ObserveAll(obs, method, res.calls, 1)
                  EXCEPT !.col_calls[col] = @ + Len(res.calls)]
    /\ pc' = IF res.raised THEN "failed" ELSE "running"

\* the effects of an iteration, a true negative left uncounted
CellEffects_NoTrueNegative(res) ==
    /\ SetModState(res.st)
    /\ metrics' = IF res.outcome = "TN" THEN metrics
                  ELSE [metrics EXCEPT ![res.outcome] = @ + 1]
    /\ summary' = IF res.count > 0
                  THEN Put(summary, col,
                           (IF col \in DOMAIN summary THEN summary[col] ELSE 0) + res.count)
                  ELSE summary
    /\ cell' = [value |-> res.value, detections |-> res.detections,
                has_detection |-> res.has_detection,
                valid_detection |-> res.valid_detection,
                has_ground_truth |-> res.has_ground_truth,
                outcome |-> res.outcome, output |-> res.output,
                count |-> res.count, calls |-> res.calls,
                col |-> col, idx |-> idx]
    /\ obs' = [ObserveAll(obs, method, res.calls, 1)
                  EXCEPT !.col_calls[col] = @ + Len(res.calls)]
    /\ pc' = IF res.raised THEN "failed" ELSE "running"

\* the effects of an iteration that came to res
CellEffects(res) ==
    /\ SetModState(res.st)
    /\ metrics' = [metrics EXCEPT ![res.outcome] = @ + 1]
    /\ summary' = IF res.count > 0
                  THEN Put(summary, col,
                           (IF col \in DOMAIN summary THEN summary[col] ELSE 0) + res.count)
                  ELSE summary
    /\ cell' = [value |-> res.value, detections |-> res.detections,
                has_detection |-> res.has_detection,
                valid_detection |-> res.valid_detection,
                has_ground_truth |-> res.has_ground_truth,
                outcome |-> res.outcome, output |-> res.output,
                count |-> res.count, calls |-> res.calls,
                col |-> col, idx |-> idx]
    /\ obs' = [ObserveAll(obs, method, res.calls, 1)
                  EXCEPT !.col_calls[col] = @ + Len(res.calls)]
    /\ pc' = IF res.raised THEN "failed" ELSE "running"

\* one iteration of the loops of analyze_dataframe, on a cell that reads value
ProcessCell(value) ==
    /\ pc = "running"
    /\ col <= ncols /\ idx < nrows
    /\ CellEffects(CellResult(method, value, ModState))
    /\ done' = done + 1
    /\ IF idx + 1 < nrows
       THEN idx' = idx + 1 /\ col' = col
       ELSE idx' = 0 /\ col' = col + 1
    /\ UNCHANGED <<method, nrows, ncols, runs, call, ncalls, detvars>>

\* the loops are through: analyze_dataframe returns
FinishRun ==
    /\ pc = "running"
    /\ col > ncols \/ nrows = 0
    /\ pc' = "idle"
    /\ UNCHANGED <<modvars, method, nrows, ncols, col, idx, done, metrics, summary, cell,
                   runs, call, ncalls, obs, detvars>>

\* deidentify_value(m, t, v) called from outside a run
DeidentifyCall(m, t, v) ==
    /\ pc = "idle"
    /\ ncalls < MaxCalls
    /\ LET r == deidentify_value(ModState, m, t, v)
       IN /\ SetModState(r.st)
          /\ call' = [method |-> m, pii_type |-> t, value |-> v,
                      raised |-> r.raised, ret |-> r.ret]
          /\ obs' = IF r.raised THEN obs
                    ELSE [Observe(obs, m, t, v, r.ret) EXCEPT !.run_pseudo = obs.run_pseudo,
                                                              !.run_sel = obs.run_sel]
    /\ ncalls' = ncalls + 1
    /\ UNCHANGED <<runvars, detvars>>

Next ==
    \/ \E m \in Methods, r \in 0..MaxRows, c \in 1..MaxCols : StartRun(m, r, c)
    \/ \E v \in CellTexts : ProcessCell(v)
    \/ FinishRun

Spec == Init /\ [][Next]_vars

(***************************************************************************)
(* The interface deidentify(strategy, type, value) called directly, with   *)
(* every strategy name and type string                                     *)
(***************************************************************************)
MethodInputs == Methods \cup {M_Other}

NextCalls ==
    \E m \in MethodInputs, t \in TypeInputs, v \in ValueInputs : DeidentifyCall(m, t, v)

SpecCalls == Init /\ [][NextCalls]_vars

(***************************************************************************)
(* The detector alone, on texts built of digit groups: an optional prefix, *)
(* up to MaxGroups groups of four digits with a separator (or none)        *)
(* between neighbours, and an optional tail                                *)
(***************************************************************************)
MaxGroups == 4

DetGroups == << <<"2","3","4","5">>, <<"6","7","8","9">>, <<"0","1","2","4">>,
                <<"1","0","0","3">>, <<"5","5","5","5">>, <<"9","0","9","0">> >>
DetSeps == {<<>>, <<" ">>, <<"-">>, <<"\t">>}
DetPrefixes == {<<>>, <<"a">>, <<"7">>}
DetTails == {<<>>, <<"8">>, <<"a">>, <<"-">>, <<" ", "8">>}

RECURSIVE JoinGroups(_, _, _)
\* groups i..k joined by the separators seps[i..k-1]
JoinGroups(i, k, seps) ==
    IF i = k THEN DetGroups[i]
    ELSE DetGroups[i] \o seps[i] \o JoinGroups(i + 1, k, seps)

DetTexts ==
    UNION { { pre \o JoinGroups(1, k, seps) \o tail :
                pre \in DetPrefixes, seps \in [1..(k - 1) -> DetSeps], tail \in DetTails }
            : k \in 1..MaxGroups }

InitDetect ==
    /\ pseudo_counters = FreshCounters
    /\ pseudo_maps = FreshMaps
    /\ sel_init = FALSE
    /\ sel_email_map = EmptyMap
    /\ sel_email_counter = 0
    /\ rng = 0
    /\ pc = "idle"
    /\ method = "none"
    /\ nrows = 0 /\ ncols = 0 /\ col = 0 /\ idx = 0 /\ done = 0
    /\ metrics = ZeroMetrics
    /\ summary = EmptyMap
    /\ cell = NoCell
    /\ runs = 0
    /\ call = NoCall
    /\ ncalls = 0
    /\ obs = NoObs
    /\ dtext \in DetTexts
    /\ dres = NoDet
    /\ vcall = NoVCall
    /\ th = NoThreads

\* what a detect_pii call leaves in dres: span_results as collected and after
\* the 12-digit rule, filtered_spans, the spans behind final_list, and final_list
Detected(d, raw, twelve, fin) ==
    [d EXCEPT !.detected = TRUE,
              !.raw = raw,
              !.twelve = twelve,
              !.filtered = DropContainedAadhaar(twelve),
              !.final = fin,
              !.out = Pairs(fin)]

DetectedFrom(d, raw, fin) == Detected(d, raw, DropTwelveDigitCards(raw), fin)

\* detect_pii(dtext), with the span lists it goes through
DetectCall ==
    /\ ~dres.detected
    /\ dres' = DetectedFrom(dres, RawSpans(dtext), FinalSpans(dtext))
    /\ UNCHANGED <<modvars, runvars, call, ncalls, obs, dtext, vcall, th>>

\* any_true_pii(dtext)
TruthCall ==
    /\ ~dres.judged
    /\ dres' = [dres EXCEPT !.judged = TRUE, !.truth = any_true_pii(dtext)]
    /\ UNCHANGED <<modvars, runvars, call, ncalls, obs, dtext, vcall, th>>

NextDetect == DetectCall \/ TruthCall

SpecDetect == InitDetect /\ [][NextDetect]_vars

(***************************************************************************)
(* Masking and Anonymization called directly on values that meet a type's  *)
(* format and on values that do not                                        *)
(***************************************************************************)
T_aadhaar_sp == <<"2","3","4","5"," ","6","7","8","9"," ","0","1","2","4">>
T_digits5 == <<"1","2","3","4","5">>
T_pan9 == <<"A","B","C","P","E","1","2","3","4">>
T_card_sp == <<"2","3","4","5"," ","6","7","8","9"," ","0","1","2","4"," ","1","0","0","3">>
\* the user name is the masking character alone
T_xmail == <<"x","@","b",".","c","c">>
T_two_at == <<"a","@","b","@","c",".","d","d">>
T_phone9 == <<"9","8","7","6","5","4","3","2","1">>

ShapeValues ==
    { T_aadhaar, T_aadhaar_sp, T_digits, T_digits5, T_pan, T_pan9, T_card, T_card_sp,
      T_email1, T_xmail, T_noat, T_two_at, T_phone1, T_phone9 }
ShapeMethods == {M_Masking, M_Anonymize}

NextShape ==
    \E m \in ShapeMethods, t \in TypeInputs, v \in ShapeValues : DeidentifyCall(m, t, v)

SpecShape == Init /\ [][NextShape]_vars

(***************************************************************************)
(* The pseudonymization module called from both of its callers: through    *)
(* deidentify_value and directly by the report of utils/data_processor.py  *)
(***************************************************************************)
\* patterns[key].search(cell)
Searches(key, text) == FindIter(key, text, 0) # <<>>

RECURSIVE FirstActualKey(_, _, _)
\* the first key of actual_flags that is set (a key is set when its pattern
\* is found and it is one of pii_to_mask): its index from k on, 0 if none
FirstActualKey(text, pii_to_mask, k) ==
    IF k > Len(PatternKeys) THEN 0
    ELSE IF PatternKeys[k] \in pii_to_mask /\ Searches(PatternKeys[k], text) THEN k
    ELSE FirstActualKey(text, pii_to_mask, k + 1)

\* pseudo_cell of the cell text: pseudo_anonymize(cell, key) for the first
\* set key, the cell itself when none is set
PseudoCell(st, text, k) ==
    IF k = 0 THEN Returned(text, st) ELSE pseudo_anonymize(st, text, PatternKeys[k])

\* the call record and the module state after the pseudonymization of a cell
ReportEffects(text, k, r) ==
    /\ SetModState(r.st)
    /\ call' = [method |-> "report", pii_type |-> IF k = 0 THEN <<>> ELSE PatternKeys[k],
                value |-> text, raised |-> r.raised, ret |-> r.ret]

\* process_dataframe_with_report on one cell: the stripped text, the flags,
\* and the direct pseudo_anonymize call that writes the module's tables (the
\* report, the metrics and the frames belong to the caller)
ReportCell(v, pii_to_mask) ==
    /\ pc = "idle"
    /\ ncalls < MaxCalls
    /\ ReportEffects(Strip(v), FirstActualKey(Strip(v), pii_to_mask, 1),
                     PseudoCell(ModState, Strip(v), FirstActualKey(Strip(v), pii_to_mask, 1)))
    /\ ncalls' = ncalls + 1
    /\ UNCHANGED <<runvars, detvars, obs>>

\* the pii_to_mask selections of the model
MaskSelections == {PatternKeySet, {K_email}, {K_phone, K_pan}}
PseudoMethods == {M_Pseudo, M_Selective}

NextPseudo ==
    \/ \E m \in PseudoMethods, t \in TypeInputs, v \in ValueInputs : DeidentifyCall(m, t, v)
    \/ \E v \in ValueInputs, sel \in MaskSelections : ReportCell(v, sel)

SpecPseudo == Init /\ [][NextPseudo]_vars

(***************************************************************************)
(* The validators called directly: is_valid_pii on every type string, and  *)
(* validate_pan with and without a surname                                 *)
(***************************************************************************)
\* twelve digits that pass the mod-10 checksum
V_card12 == <<"2","3","4","5","6","7","8","9","0","1","2","9">>
V_card13 == <<"4","1","1","1","1","1","1","1","1","1","1","1","9">>
V_card19 == <<"2","3","4","5","6","7","8","9","0","1","2","4","1","0","0","3","1","2","5">>
\* twenty digits that pass the mod-10 checksum
V_card20 == <<"2","3","4","5","6","7","8","9","0","1","2","4","1","0","0","3","1","2","3","0">>
\* sixteen digits that fail it
V_card_bad == <<"2","3","4","5","6","7","8","9","0","1","2","4","1","0","0","4">>
\* twelve digits that pass the Verhoeff checksum and start with 1
V_aadhaar1 == <<"1","2","3","4","5","6","7","8","9","0","1","0">>
V_aadhaar11 == <<"2","3","4","5","6","7","8","9","0","1","9">>
V_aadhaar13 == <<"2","3","4","5","6","7","8","9","0","1","2","4","5">>
V_pan_lower == <<" ","a","b","c","p","e","1","2","3","4","a">>

ValidValues ==
    { <<>>, V_card12, V_card13, T_card, T_card_sp, V_card19, V_card20, V_card_bad,
      T_aadhaar, T_aadhaar_sp, T_digits, V_aadhaar1, V_aadhaar11, V_aadhaar13,
      T_email1, T_noat, T_two_at, T_pan, T_phone1, T_phone9 }

\* the PAN strings: three letters (some whose weighted value has three
\* digits), a fourth character in and out of the entity codes, a letter,
\* four digits and every tenth letter; and some that miss the format
PanFirstThree == { <<"A","B","C">>, <<"A","A","G">>, <<"Z","Z","Z">> }
PanFourth == PanEntityTypes \cup {"D", "Z"}
PanFifth == {"E", "Z"}
PanFourDigits == { <<"1","2","3","4">>, <<"9","0","9","9">> }
PanInputs ==
    { a \o <<e, n>> \o d \o <<c>> :
        a \in PanFirstThree, e \in PanFourth, n \in PanFifth, d \in PanFourDigits,
        c \in UpperChars }
    \cup { <<>>, T_pan9, V_pan_lower, T_digits }
\* no surname (absent or empty), a matching one, one of blanks only, another
SurnameInputs == { <<>>, <<"E","d">>, <<" ">>, <<"k","a">> }

\* a call about to be made: the validator and its arguments
PendingCall(fn, t, v, surname) ==
    [NoVCall EXCEPT !.fn = fn, !.pii_type = t, !.value = v, !.surname = surname]

InitValidate ==
    /\ pseudo_counters = FreshCounters
    /\ pseudo_maps = FreshMaps
    /\ sel_init = FALSE
    /\ sel_email_map = EmptyMap
    /\ sel_email_counter = 0
    /\ rng = 0
    /\ pc = "idle"
    /\ method = "none"
    /\ nrows = 0 /\ ncols = 0 /\ col = 0 /\ idx = 0 /\ done = 0
    /\ metrics = ZeroMetrics
    /\ summary = EmptyMap
    /\ cell = NoCell
    /\ runs = 0
    /\ call = NoCall
    /\ ncalls = 0
    /\ obs = NoObs
    /\ dtext = <<>>
    /\ dres = NoDet
    /\ th = NoThreads
    /\ vcall \in {PendingCall("is_valid_pii", t, v, <<>>) : t \in TypeInputs, v \in ValidValues}
           \cup {PendingCall("validate_pan", K_pan, pan, surname) :
                    pan \in PanInputs, surname \in SurnameInputs}

\* is_valid_pii(pii_type, value)
ValidCall ==
    /\ vcall.fn = "is_valid_pii" /\ ~vcall.called
    /\ vcall' = [vcall EXCEPT !.called = TRUE,
                              !.ret = is_valid_pii(vcall.pii_type, vcall.value)]
    /\ UNCHANGED <<modvars, runvars, call, ncalls, obs, dtext, dres, th>>

\* validate_pan(pan, surname): its result, or the IndexError it raises
PanCall ==
    /\ vcall.fn = "validate_pan" /\ ~vcall.called
    /\ vcall' = [vcall EXCEPT !.called = TRUE,
                              !.raised = validate_pan_raises(vcall.value, vcall.surname),
                              !.ret = IF validate_pan_raises(vcall.value, vcall.surname)
                                      THEN FALSE
                                      ELSE validate_pan(vcall.value, vcall.surname)]
    /\ UNCHANGED <<modvars, runvars, call, ncalls, obs, dtext, dres, th>>

NextValidate == ValidCall \/ PanCall

SpecValidate == InitValidate /\ [][NextValidate]_vars

(***************************************************************************)
(* analyze_dataframe on dataframes of up to TableCols columns, over cells  *)
(* with no candidate, an unconfirmed one, and one and two confirmed ones   *)
(***************************************************************************)
TableTexts == { T_plain, T_digits, T_email1, T_email1 \o <<" ">> \o T_phone1 }

NextTable ==
    \/ \E m \in Methods, r \in 0..MaxRows, c \in 1..TableCols : StartRun(m, r, c)
    \/ \E v \in TableTexts : ProcessCell(v)
    \/ FinishRun

SpecTable == Init /\ [][NextTable]_vars

(***************************************************************************)
(* Pseudo-Anonymization called from two threads that share the module's    *)
(* tables; the module takes no lock, so the steps of two calls interleave  *)
(***************************************************************************)
\* the (type, value) pairs the threads call with
ThreadInputs == { <<K_phone, T_phone1>>, <<K_phone, T_phone2>>,
                  <<K_email, T_email1>>, <<K_email, T_email2>> }

\* the replacement string built from the counter value n
PseudoName(t, value, n) ==
    IF t = K_email THEN S_user \o IntToStr(n) \o <<"@">> \o EmailDomainOf(value)
    ELSE t \o <<"_">> \o IntToStr(n)

\* thread i enters pseudo_anonymize_pii(t, value)
ThreadCall(i, t, value) ==
    /\ pc = "idle"
    /\ th[i].pc \in {"idle", "done"}
    /\ ncalls < MaxCalls
    /\ th' = [th EXCEPT ![i] = [NoThread EXCEPT !.pc = "test", !.pii_type = t,
                                               !.value = value]]
    /\ ncalls' = ncalls + 1
    /\ UNCHANGED <<modvars, runvars, call, obs, dtext, dres, vcall>>

\* if value not in pseudo_maps[t]
ThreadTest(i) ==
    /\ th[i].pc = "test"
    /\ th' = [th EXCEPT ![i].was_new = th[i].value \notin DOMAIN pseudo_maps[th[i].pii_type],
                        ![i].pc = IF th[i].value \notin DOMAIN pseudo_maps[th[i].pii_type]
                                  THEN "read" ELSE "return"]
    /\ UNCHANGED <<modvars, runvars, call, ncalls, obs, dtext, dres, vcall>>

\* the right-hand side of the assignment: the string made of pseudo_counters[t]
ThreadRead(i) ==
    /\ th[i].pc = "read"
    /\ th' = [th EXCEPT ![i].repl = PseudoName(th[i].pii_type, th[i].value,
                                                 pseudo_counters[th[i].pii_type]),
                        ![i].pc = "write"]
    /\ UNCHANGED <<modvars, runvars, call, ncalls, obs, dtext, dres, vcall>>

\* pseudo_maps[t][value] = the string
ThreadWrite(i) ==
    /\ th[i].pc = "write"
    /\ pseudo_maps' = [pseudo_maps EXCEPT ![th[i].pii_type] = Put(@, th[i].value, th[i].repl)]
    /\ th' = [th EXCEPT ![i].pc = "incr"]
    /\ UNCHANGED <<pseudo_counters, sel_init, sel_email_map, sel_email_counter, rng,
                   runvars, call, ncalls, obs, dtext, dres, vcall>>

\* pseudo_counters[t] += 1
ThreadIncr(i) ==
    /\ th[i].pc = "incr"
    /\ pseudo_counters' = [pseudo_counters EXCEPT ![th[i].pii_type] = @ + 1]
    /\ th' = [th EXCEPT ![i].pc = "return"]
    /\ UNCHANGED <<pseudo_maps, sel_init, sel_email_map, sel_email_counter, rng,
                   runvars, call, ncalls, obs, dtext, dres, vcall>>

\* return pseudo_maps[t][value]
ThreadReturn(i) ==
    /\ th[i].pc = "return"
    /\ th' = [th EXCEPT ![i].ret = pseudo_maps[th[i].pii_type][th[i].value],
                        ![i].pc = "done"]
    /\ UNCHANGED <<modvars, runvars, call, ncalls, obs, dtext, dres, vcall>>

NextThreads ==
    \E i \in Threads :
        \/ \E in \in ThreadInputs : ThreadCall(i, in[1], in[2])
        \/ ThreadTest(i)
        \/ ThreadRead(i)
        \/ ThreadWrite(i)
        \/ ThreadIncr(i)
        \/ ThreadReturn(i)

SpecThreads == Init /\ [][NextThreads]_vars

(***************************************************************************)
(* Properties                                                              *)
(***************************************************************************)

\* C1: within one process lifetime a consistent strategy (Pseudonymization for
\* every type, Selective for emails) hands the same replacement to the same
\* (type, value) on every call: no (strategy, type, value) was ever answered
\* with two different strings, so a replacement once handed out is never
\* changed by a later call.
C1_SameReplacement ==
    \A a, b \in obs.issued :
        (a[1] = b[1] /\ a[2] = b[2] /\ a[3] = b[3]) => a[4] = b[4]

\* a Pseudo-Anonymization run whose two cells made one call each, both for the
\* same phone number
C1_Witness ==
    /\ pc = "running" /\ method = M_Pseudo /\ done = 2
    /\ 1 \in DOMAIN summary /\ summary[1] = 2
    /\ Len(obs.run_pseudo[K_phone]) = 1
    /\ \A t \in PatternKeySet \ {K_phone} : obs.run_pseudo[t] = <<>>
    /\ cell.calls = << <<K_phone, T_phone1, obs.run_pseudo[K_phone][1][2]>> >>

\* the replacement whose counter value is k: t_k, or userk@domain for an email
CounterName(t, k, value) ==
    IF t = K_email THEN S_user \o IntToStr(k) \o <<"@">> \o EmailDomainOf(value)
    ELSE t \o <<"_">> \o IntToStr(k)

\* C2: in a run the k-th distinct value of a type given to Pseudonymization
\* gets the replacement with counter value k (the first new value 1, the next
\* 2, ...), so the replacements encode first-seen order and one value's
\* counter is never above that of a value first seen later.
C2_CounterFollowsRunOrder ==
    \A t \in PatternKeySet :
        \A k \in DOMAIN obs.run_pseudo[t] :
            obs.run_pseudo[t][k][2] = CounterName(t, k, obs.run_pseudo[t][k][1])

\* C3: at the start of every analyze_dataframe run every per-type counter is 1
\* and every original-to-replacement map is empty, whatever earlier runs did.
C3_FreshAtRunStart ==
    (pc = "running" /\ done = 0) =>
        /\ pseudo_counters = FreshCounters
        /\ pseudo_maps = FreshMaps
        /\ sel_init => (sel_email_map = EmptyMap /\ sel_email_counter = 1)

\* the replacement Selective builds for an email with counter value k
SelectiveName(k, value) == K_email \o IntToStr(k) \o <<"@">> \o EmailDomainOf(value)

\* C4: Pseudonymization and Selective number emails independently: the counter
\* Selective uses for a new email is 1 plus the number of distinct emails
\* Selective has seen so far, the one Pseudonymization uses is 1 plus the
\* number of distinct emails Pseudonymization has seen so far, and the k-th
\* distinct email of each got that strategy's name with counter value k.
C4_SeparateEmailSequences ==
    /\ sel_init => sel_email_counter = 1 + Len(obs.sel_seen)
    /\ pseudo_counters[K_email] = 1 + Len(obs.pseudo_seen[K_email])
    /\ \A k \in DOMAIN obs.sel_seen :
           /\ obs.sel_seen[k] \in DOMAIN sel_email_map
           /\ sel_email_map[obs.sel_seen[k]] = SelectiveName(k, obs.sel_seen[k])
    /\ \A k \in DOMAIN obs.pseudo_seen[K_email] :
           /\ obs.pseudo_seen[K_email][k] \in DOMAIN pseudo_maps[K_email]
           /\ pseudo_maps[K_email][obs.pseudo_seen[K_email][k]]
                  = CounterName(K_email, k, obs.pseudo_seen[K_email][k])

\* Selective has seen one email, Pseudonymization two, that one among them
C4_Witness ==
    /\ Len(obs.sel_seen) = 1
    /\ Len(obs.pseudo_seen[K_email]) = 2
    /\ obs.sel_seen[1] \in Range(obs.pseudo_seen[K_email])

\* a candidate of the list d that the validator confirms
Confirmed(d) == \E i \in DOMAIN d : IsValid(d[i][1], d[i][2])

\* the documented table over (detection present, at least one candidate
\* confirmed, ground truth)
DocumentedOutcome(present, confirmed, truth) ==
    CASE present /\ confirmed /\ truth -> "TP"
      [] present /\ confirmed /\ ~truth -> "FP"
      [] present /\ ~confirmed /\ truth -> "FN"
      [] present /\ ~confirmed /\ ~truth -> "FP"
      [] ~present /\ truth -> "FN"
      [] ~present /\ ~truth -> "TN"

\* C5: every processed cell increments exactly one of TP, FP, FN, TN, the one
\* the documented table gives for (detection present, validator confirms at
\* least one candidate, ground truth), and leaves the other three alone.
C5_OneCounterByTable ==
    [][done' = done + 1 =>
          metrics' = [metrics EXCEPT ![DocumentedOutcome(cell'.detections # <<>>,
                                                          Confirmed(cell'.detections),
                                                          cell'.has_ground_truth)] = @ + 1]]_vars

\* a cell with candidates none of which is confirmed was counted FP
C5_Witness ==
    /\ cell.outcome = "FP" /\ cell.detections # <<>> /\ ~Confirmed(cell.detections)
    /\ metrics = [ZeroMetrics EXCEPT !.FP = 1]

\* C6: for every cell the ground truth any_true_pii gives is true exactly when
\* the validator confirms at least one detected candidate; so FN is never
\* incremented, and a cell is counted FP only when candidates were detected
\* and none was confirmed.
C6_GroundTruthIsValidation ==
    cell.outcome # "none" =>
        /\ cell.has_ground_truth <=> Confirmed(cell.detections)
        /\ metrics.FN = 0
        /\ cell.outcome = "FP" => (cell.detections # <<>> /\ ~Confirmed(cell.detections))

\* a cell with two candidates, the first not confirmed and the second
\* confirmed, was given ground truth true and counted TP
C6_Witness ==
    /\ Len(cell.detections) = 2
    /\ ~IsValid(cell.detections[1][1], cell.detections[1][2])
    /\ IsValid(cell.detections[2][1], cell.detections[2][2])
    /\ cell.has_ground_truth /\ cell.outcome = "TP"

\* a text of exactly twelve digits and nothing else
IsBareTwelve(text) == Len(text) = TwelveDigits /\ DigitsOnly(text) = text

\* C7: detect_pii returns no credit_card candidate whose digits number exactly
\* 12, and a text that is a bare 12-digit number comes back as one aadhaar
\* candidate and no credit_card.
C7_NoTwelveDigitCard ==
    dres.detected =>
        /\ \A i \in DOMAIN dres.out :
               dres.out[i][1] = K_credit_card => Len(DigitsOnly(dres.out[i][2])) # TwelveDigits
        /\ IsBareTwelve(dtext) => dres.out = << <<K_aadhaar, dtext>> >>

\* detect_pii has answered for a bare 12-digit text
C7_Witness ==
    dres.detected /\ IsBareTwelve(dtext) /\ dres.out = << <<K_aadhaar, dtext>> >>

Within(sp, c) == sp[3] >= c[3] /\ sp[4] <= c[4]

\* the credit_card spans of a span list
CardsOf(spans) == {spans[i] : i \in {j \in DOMAIN spans : spans[j][1] = K_credit_card}}

\* C9: no aadhaar candidate detect_pii keeps has its span inside the span of a
\* credit_card candidate that survived the 12-digit rule, and every aadhaar
\* candidate that lies inside no surviving credit_card span is kept by the
\* containment step.
C9_ContainedAadhaarDropped ==
    dres.detected =>
        LET cards == CardsOf(dres.twelve)
        IN /\ \A i \in DOMAIN dres.final :
                  dres.final[i][1] = K_aadhaar => ~\E c \in cards : Within(dres.final[i], c)
           /\ \A i \in DOMAIN dres.twelve :
                  (dres.twelve[i][1] = K_aadhaar /\ ~\E c \in cards : Within(dres.twelve[i], c))
                    => dres.twelve[i] \in Range(dres.filtered)

\* an aadhaar match inside a surviving credit_card match was collected and
\* detect_pii answered with no aadhaar candidate
C9_Witness ==
    /\ dres.detected
    /\ \E i \in DOMAIN dres.twelve :
           dres.twelve[i][1] = K_aadhaar /\ \E c \in CardsOf(dres.twelve) : Within(dres.twelve[i], c)
    /\ \A k \in DOMAIN dres.out : dres.out[k][1] # K_aadhaar

\* C10: deidentify(strategy, type, value) returns a string for every strategy
\* name and every type string, recognized or not, and never raises; with an
\* unrecognized strategy name it returns the value unchanged.
C10_NeverRaises ==
    call.method # "none" =>
        /\ ~call.raised
        /\ call.method \notin Methods => call.ret = call.value

\* the format precondition of the masking function of type t on the value v
MaskPrecondition(t, v) ==
    CASE t = K_aadhaar     -> Len(DigitsOnly(v)) = 12
      [] t = K_pan         -> Len(v) = 10
      [] t = K_credit_card -> Len(DigitsOnly(v)) >= 13
      [] t = K_email       -> CountChar(v, "@") = 1
      [] t = K_phone       -> Len(DigitsOnly(v)) = 10

\* a Masking call of one of the five types on a value that misses the format
MaskedOffFormat ==
    /\ call.method = M_Masking
    /\ MappedType(call.pii_type) \in PatternKeySet
    /\ ~MaskPrecondition(MappedType(call.pii_type), call.value)

\* C11 as stated: every masking function returns its input unchanged whenever
\* the input does not meet that function's format precondition.
C11_AllPassThrough == MaskedOffFormat => call.ret = call.value

\* C11: mask_aadhaar, mask_pan, mask_credit_card and mask_email return their
\* input unchanged whenever the input does not meet the function's format
\* precondition (wrong digit count, wrong length, not exactly one '@');
\* mask_phone returns the fixed string XXXXXXXXXX for an input that does not
\* have exactly 10 digits.
C11_PassThroughButPhone ==
    MaskedOffFormat =>
        IF MappedType(call.pii_type) = K_phone
        THEN call.ret = <<"X","X","X","X","X","X","X","X","X","X">>
        ELSE call.ret = call.value

\* a PAN of nine characters was given to Masking and came back as it was
C11_Witness ==
    /\ MaskedOffFormat /\ MappedType(call.pii_type) = K_pan
    /\ call.value = T_pan9 /\ call.ret = T_pan9 /\ ~call.raised

\* a Masking call of one of the five types on a value its validator confirms
MaskedConfirmed ==
    /\ call.method = M_Masking
    /\ MappedType(call.pii_type) \in PatternKeySet
    /\ is_valid_pii(call.pii_type, call.value)

\* C12: for every validator-confirmed value of each of the five types the
\* Masking output never contains the full original value as a substring, and
\* for a PAN it never shows the original characters 6-9 in their positions.
C12_MaskHidesOriginal ==
    MaskedConfirmed =>
        /\ ~IsSubstring(call.value, call.ret)
        /\ MappedType(call.pii_type) = K_pan =>
               \A i \in 6..9 : i \in DOMAIN call.ret /\ i \in DOMAIN call.value
                                   => call.ret[i] # call.value[i]

\* the first and the last k characters of v, and its digits
FirstChars(v, k) == SubSeq(v, 1, k)
LastChars(v, k) == SubSeq(v, Len(v) - k + 1, Len(v))
DigitsIn(v) == SelectSeq(v, LAMBDA ch : ch \in DigitChars)

\* the masked form the documentation gives for a value v of type t
DocumentedMask(t, v) ==
    CASE t = K_aadhaar -> FirstChars(v, 4) \o <<"-","X","X","X","X","-">> \o LastChars(v, 4)
      [] t = K_pan -> FirstChars(v, 5) \o <<"*","*","*","*">> \o LastChars(v, 1)
      [] t = K_credit_card ->
           <<"X","X","X","X","-","X","X","X","X","-","X","X","X","X","-">>
               \o LastChars(DigitsIn(v), 4)
      [] t = K_email ->
           LET at == CHOOSE i \in DOMAIN v : v[i] = "@"
           IN [j \in 1..(at - 1) |-> "x"] \o SubSeq(v, at, Len(v))
      [] t = K_phone -> <<"X","X","X","X","X","X">> \o LastChars(DigitsIn(v), 4)

\* C13: for a validated value v Masking gives exactly first4 + "-XXXX-" + last4
\* for aadhaar, first5 + "****" + last1 for a 10-character PAN,
\* "XXXX-XXXX-XXXX-" + the last 4 digits for a card, 'x' repeated over the user
\* name + "@" + the unchanged domain for an email and "XXXXXX" + the last 4
\* digits for a phone, whatever calls came before.
C13_MaskShowsDocumentedChars ==
    MaskedConfirmed => call.ret = DocumentedMask(MappedType(call.pii_type), call.value)

\* the second of two calls masked the aadhaar number written with spaces
C13_Witness ==
    /\ ncalls = 2 /\ MaskedConfirmed
    /\ call.value = T_aadhaar_sp
    /\ call.ret = <<"2","3","4","5","-","X","X","X","X","-","0","1","2","4">>

\* every character of s lies in the set cls
AllIn(s, cls) == \A i \in DOMAIN s : s[i] \in cls

\* the shape the documentation gives the Anonymization output of type t
DocumentedAnonymShape(t, r) ==
    CASE t = K_aadhaar -> Len(r) = 12 /\ AllIn(r, DigitChars)
      [] t = K_pan -> /\ Len(r) = 10
                      /\ AllIn(SubSeq(r, 1, 5), UpperChars)
                      /\ AllIn(SubSeq(r, 6, 9), DigitChars)
                      /\ r[10] \in UpperChars
      [] t = K_phone -> Len(r) = 10 /\ r[1] = "9" /\ AllIn(SubSeq(r, 2, 10), DigitChars)
      [] t = K_credit_card -> Len(r) = 16 /\ AllIn(r, AlnumChars)
      [] t = K_email -> TRUE
      [] OTHER -> Len(r) = 10 /\ AllIn(r, AlnumChars)

\* C14: every Anonymization output has the stated shape of its type: 12 digits
\* for aadhaar; 5 uppercase letters, 4 digits and 1 uppercase letter for PAN;
\* '9' and 9 digits for phone; 16 alphanumerics for credit_card; 10
\* alphanumerics for an unknown type.
C14_AnonymizedShape ==
    call.method = M_Anonymize => DocumentedAnonymShape(MappedType(call.pii_type), call.ret)

\* the domain the documentation gives the pseudonym of an email value
DocumentedDomain(value) ==
    IF CountChar(value, "@") = 1 THEN AfterAt(value) ELSE S_gmail

\* C15: after any sequence of calls into the pseudonymization module, the
\* Pseudo-Anonymization of an email value returns "user{n}@{d}", d being the
\* value's own domain when it holds exactly one '@' and "gmail.com" otherwise.
C15_EmailPseudonymForm ==
    (call.method = M_Pseudo /\ MappedType(call.pii_type) = K_email /\ ~call.raised)
        => \E n \in 1..(MaxCalls + 1) :
               call.ret = S_user \o IntToStr(n) \o <<"@">> \o DocumentedDomain(call.value)

\* the entity codes the documentation lists for the fourth character
DocumentedEntityCodes == {"A", "B", "C", "F", "G", "H", "J", "L", "P", "T"}

\* the documented weighted value of the i-th character: digit as it is,
\* A=10..Z=35, times the weight, a two-digit product replaced by its digit sum
DocumentedWeighted(ch, i) ==
    LET v == IF ch \in DigitChars THEN DigitVal(ch) ELSE IndexIn(UpperSeq, ch) + 9
        w == v * PanWeights[i]
    IN IF w >= 10 /\ w <= 99 THEN (w \div 10) + (w % 10) ELSE w

RECURSIVE DocumentedPanSum(_, _)
DocumentedPanSum(pan, i) ==
    IF i > 9 THEN 0 ELSE DocumentedWeighted(pan[i], i) + DocumentedPanSum(pan, i + 1)

\* the letter for (10 - (sum mod 10)) mod 10, 0 = A .. 9 = J
DocumentedCheckLetter(pan) == UpperSeq[((10 - (DocumentedPanSum(pan, 1) % 10)) % 10) + 1]

\* three letters, any fourth letter, a letter, four digits and a tenth letter
IsPanCandidate(pan) ==
    /\ Len(pan) = 10
    /\ AllIn(SubSeq(pan, 1, 5), UpperChars)
    /\ AllIn(SubSeq(pan, 6, 9), DigitChars)
    /\ pan[10] \in UpperChars

\* the tenth characters that make validate_pan true on the first nine of pan
AcceptedTenth(pan) == {c \in UpperChars : validate_pan([pan EXCEPT ![10] = c], <<>>)}

\* C16: for every prefix of 3 letters, an entity code, a letter and 4 digits
\* exactly one tenth character makes validate_pan true; it lies in A-J and is
\* the letter of the documented weighted sum (two-digit products replaced by
\* their digit sum), so altering the tenth character alone of a valid PAN
\* makes it invalid; a fourth character outside the entity codes is rejected.
C16_PanCheckCharacter ==
    (vcall.fn = "validate_pan" /\ vcall.called /\ vcall.surname = <<>>
     /\ IsPanCandidate(vcall.value))
        => IF vcall.value[4] \in DocumentedEntityCodes
           THEN /\ AcceptedTenth(vcall.value) = {DocumentedCheckLetter(vcall.value)}
                /\ AcceptedTenth(vcall.value) \subseteq Range(SubSeq(UpperSeq, 1, 10))
                /\ vcall.ret <=> (vcall.value[10] = DocumentedCheckLetter(vcall.value))
           ELSE ~vcall.ret /\ AcceptedTenth(vcall.value) = {}

RECURSIVE StandardLuhnTotal(_, _)
\* the mod-10 total of the digits ds from the i-th from the right on: every
\* second digit doubled, the two digits of a doubled one added
StandardLuhnTotal(ds, i) ==
    IF i >= Len(ds) THEN 0
    ELSE LET d == DigitVal(ds[Len(ds) - i])
         IN (IF i % 2 = 1 THEN ((2 * d) \div 10) + ((2 * d) % 10) ELSE d)
            + StandardLuhnTotal(ds, i + 1)

\* the values that differ from v in exactly one digit, replaced by another digit
SingleDigitAlterations(v) ==
    {[v EXCEPT ![i] = d] : i \in {j \in DOMAIN v : v[j] \in DigitChars}, d \in DigitChars}
        \ {v}

C18_AadhaarValidation ==
    (vcall.fn = "is_valid_pii" /\ vcall.called /\ MappedType(vcall.pii_type) = K_aadhaar)
        => /\ vcall.ret <=> /\ Len(DigitsOnly(vcall.value)) = 12
                            /\ DigitVal(DigitsOnly(vcall.value)[1]) \in 2..9
                            /\ VerhoeffFold(DigitsOnly(vcall.value), 0, 0) = 0
           /\ vcall.ret => \A a \in SingleDigitAlterations(vcall.value) :
                               ~is_valid_pii(vcall.pii_type, a)

\* an Aadhaar number written in groups was accepted
C18_Witness ==
    /\ vcall.fn = "is_valid_pii" /\ vcall.called
    /\ MappedType(vcall.pii_type) = K_aadhaar
    /\ vcall.ret /\ Len(vcall.value) > Len(DigitsOnly(vcall.value))

\* C19: the validators report malformed input as invalid and never raise:
\* is_valid_pii returns a boolean for every type string and candidate, false
\* for an unknown type, and validate_pan returns a boolean for every pan
\* string whether the surname is absent, empty or any string.
C19_ValidatorsReturn ==
    vcall.called
        => /\ ~vcall.raised
           /\ vcall.ret \in BOOLEAN
           /\ (vcall.fn = "is_valid_pii" /\ MappedType(vcall.pii_type) \notin PatternKeySet)
                  => ~vcall.ret

\* C20: only validator-confirmed candidates drive replacement: an iteration
\* on a cell none of whose candidates passes is_valid_pii (or with no
\* candidate) writes the cell text unchanged, makes no de-identification
\* call, leaves the per-column counts and all pseudonymization state as
\* they were.
C20_UnconfirmedCellUntouched ==
    [][(done' = done + 1 /\ ~Confirmed(cell'.detections))
          => /\ cell'.output = cell'.value
             /\ cell'.calls = <<>>
             /\ summary' = summary
             /\ modvars' = modvars
             /\ pc' = "running"]_vars

\* a cell with candidates, none confirmed, was processed in a run that had
\* already replaced something and written the pseudonymization tables
C20_Witness ==
    /\ done >= 2
    /\ cell.has_detection /\ ~Confirmed(cell.detections)
    /\ summary # EmptyMap
    /\ pseudo_maps # FreshMaps

\* the confirmed candidates of a cell for which the loop made no call
SkippedConfirmed(c) ==
    {d \in Range(c.detections) :
        IsValid(d[1], d[2]) /\ \A i \in DOMAIN c.calls : <<c.calls[i][1], c.calls[i][2]>> # d}

\* C21: within one cell the confirmed candidates are de-identified longest
\* matched string first, and a candidate whose string lies in a string
\* already replaced in the cell is skipped: no call, no counter assignment
\* and no count for it, so no matched string is de-identified twice in a cell.
C21_LongestFirstSkipContained ==
    [][(done' = done + 1)
          => /\ \A i, j \in DOMAIN cell'.calls :
                    i < j => /\ Len(cell'.calls[i][2]) >= Len(cell'.calls[j][2])
                             /\ ~IsSubstring(cell'.calls[j][2], cell'.calls[i][2])
             /\ \A i \in DOMAIN cell'.calls :
                    /\ <<cell'.calls[i][1], cell'.calls[i][2]>> \in Range(cell'.detections)
                    /\ IsValid(cell'.calls[i][1], cell'.calls[i][2])
             /\ cell'.count = Len(cell'.calls)
             /\ \A d \in SkippedConfirmed(cell') :
                    /\ \E i \in DOMAIN cell'.calls : IsSubstring(d[2], cell'.calls[i][2])
                    /\ d[2] \in DOMAIN pseudo_maps'[d[1]] => d[2] \in DOMAIN pseudo_maps[d[1]]
                    /\ d[2] \in DOMAIN sel_email_map' => d[2] \in DOMAIN sel_email_map]_vars

\* a cell of a Pseudo-Anonymization run in which one confirmed candidate was
\* replaced and another, lying in it, was skipped
C21_Witness ==
    /\ method = M_Pseudo
    /\ cell.calls # <<>>
    /\ SkippedConfirmed(cell) # {}

\* the per-column counts are exactly the numbers of calls made per column
SummaryIsCallCount(sm, o) ==
    \A c \in 1..TableCols :
        IF o.col_calls[c] = 0 THEN c \notin DOMAIN sm
        ELSE c \in DOMAIN sm /\ sm[c] = o.col_calls[c]

\* C22: when analyze_dataframe finishes, the count of each column equals the
\* number of de-identification calls made for the cells of that column, a
\* column without a call has no entry, and during the run no count decreases.
C22_CountIsCallsPerColumn ==
    [][/\ (pc = "running" /\ pc' = "idle") => SummaryIsCallCount(summary', obs')
       /\ (pc = "running" /\ pc' = "running")
             => \A c \in DOMAIN summary : c \in DOMAIN summary' /\ summary'[c] >= summary[c]]_vars

\* a finished run over two columns: no call for the first, several for the second
C22_Witness ==
    /\ pc = "idle" /\ runs >= 1 /\ ncols = 2
    /\ obs.col_calls[1] = 0
    /\ obs.col_calls[2] >= 3
    /\ DOMAIN summary = {2}

MetricKeys == {"TP", "TN", "FP", "FN"}
MetricTotal(mt) == mt.TP + mt.TN + mt.FP + mt.FN

\* C23: each processed cell raises exactly one of TP, TN, FP, FN by one:
\* after k cells the four add up to k, at the end of analyze_dataframe to
\* rows times columns, and no counter decreases during the run.
C23_OneCounterPerCell ==
    [][/\ (done' = done + 1)
             => \E k \in MetricKeys : metrics' = [metrics EXCEPT ![k] = @ + 1]
       /\ (pc' = "running") => MetricTotal(metrics') = done'
       /\ (pc = "running" /\ pc' = "idle") => MetricTotal(metrics') = nrows * ncols
       /\ (pc = "running" /\ pc' = "running")
             => \A k \in MetricKeys : metrics'[k] >= metrics[k]]_vars

\* a finished run over two rows and two columns that counted three kinds of cell
C23_Witness ==
    /\ pc = "idle" /\ runs >= 1
    /\ nrows = 2 /\ ncols = 2 /\ done = 4
    /\ metrics.TP >= 1 /\ metrics.FP >= 1 /\ metrics.TN >= 1

\* C24: two Pseudo-Anonymization calls running concurrently with two
\* different new values of one type give the two values different
\* replacements in every interleaving of their steps, and the counter of
\* the type ends exactly 2 higher.
C24_ConcurrentCallsDistinct ==
    (/\ th[1].pc = "done" /\ th[2].pc = "done"
     /\ th[1].was_new /\ th[2].was_new
     /\ th[1].pii_type = th[2].pii_type
     /\ th[1].value # th[2].value
     /\ ncalls = 2)
        => /\ th[1].ret # th[2].ret
           /\ pseudo_counters[th[1].pii_type] = FreshCounters[th[1].pii_type] + 2

\* the selective-email map and counter, as they are once the first call has
\* created them (an empty map and the counter 1)
SelectiveState(init, map, counter) == IF init THEN <<map, counter>> ELSE <<EmptyMap, 1>>

\* C25: each de-identification call modifies only its own state: a
\* Pseudo-Anonymization call for type t changes at most the map and counter of
\* t and nothing of the selective-email state; a Selective call changes at
\* most the selective-email map and counter; Masking, Anonymization and
\* Selective on a non-email type change none of them.
C25_CallsTouchOwnState ==
    [][(ncalls' = ncalls + 1)
          => /\ (call'.method = M_Pseudo)
                   => /\ \A k \in PatternKeySet \ {MappedType(call'.pii_type)} :
                             /\ pseudo_maps'[k] = pseudo_maps[k]
                             /\ pseudo_counters'[k] = pseudo_counters[k]
                      /\ SelectiveState(sel_init', sel_email_map', sel_email_counter')
                            = SelectiveState(sel_init, sel_email_map, sel_email_counter)
             /\ (call'.method # M_Pseudo)
                   => pseudo_maps' = pseudo_maps /\ pseudo_counters' = pseudo_counters
             /\ (call'.method # M_Selective \/ Lower(call'.pii_type) # K_email)
                   => SelectiveState(sel_init', sel_email_map', sel_email_counter')
                         = SelectiveState(sel_init, sel_email_map, sel_email_counter)]_vars

\* an Anonymization call was made when a pseudonymization table held an entry
C25_Witness ==
    /\ ncalls = 2
    /\ call.method = M_Anonymize /\ ~call.raised
    /\ pseudo_maps # FreshMaps

\* no thread is inside a call
Quiescent(t) == \A i \in Threads : t[i].pc \in {"idle", "done"}

\* every entry of map m is in map n with the same replacement
KeepsEntries(m, n) == \A v \in DOMAIN m : v \in DOMAIN n /\ n[v] = m[v]

\* C26: in every reachable state of the pseudonymization module the counter of
\* each type is 1 plus the number of entries of its map, no counter
\* decreases and no entry is removed or overwritten; likewise for the
\* selective-email counter and map.
C26_CounterCountsEntries ==
    [][/\ \A t \in PatternKeySet :
             /\ pseudo_counters'[t] >= pseudo_counters[t]
             /\ KeepsEntries(pseudo_maps[t], pseudo_maps'[t])
             /\ Quiescent(th') => pseudo_counters'[t] = 1 + Cardinality(DOMAIN pseudo_maps'[t])
       /\ sel_init
             => /\ sel_email_counter' >= sel_email_counter
                /\ KeepsEntries(sel_email_map, sel_email_map')
       /\ sel_init'
             => sel_email_counter' = 1 + Cardinality(DOMAIN sel_email_map')]_vars

\* C27: display labels and internal keys are interchangeable: under each of
\* the four strategies a call with a label of TYPE_MAPPING returns what the
\* call with the corresponding key returns and leaves the same state.
C27_LabelActsAsKey ==
    [][(ncalls' = ncalls + 1 /\ call'.method \in Methods
        /\ call'.pii_type \in DOMAIN TYPE_MAPPING)
          => /\ call'.raised = deidentify_value(ModState, call'.method,
                                                TYPE_MAPPING[call'.pii_type], call'.value).raised
             /\ call'.ret = deidentify_value(ModState, call'.method,
                                             TYPE_MAPPING[call'.pii_type], call'.value).ret
             /\ ModState' = deidentify_value(ModState, call'.method,
                                             TYPE_MAPPING[call'.pii_type], call'.value).st]_vars

RECURSIVE Uncovered(_, _, _)
\* the output text with the replacements of the calls from the k-th on
\* blotted out: what is left was not written by a replacement
Uncovered(text, calls, k) ==
    IF k > Len(calls) THEN text
    ELSE Uncovered(IF calls[k][3] = <<>> THEN text ELSE ReSub(calls[k][3], <<"#">>, text),
                   calls, k + 1)

\* C28: the skip rule only skips nested matches: a confirmed candidate that
\* also occurs in the cell outside every replaced span is de-identified, so
\* after a cell is processed no occurrence of a confirmed candidate's string
\* remains in the output at a place not covered by a replacement.
C28_NoConfirmedStringLeft ==
    (done >= 1 /\ pc # "failed")
        => \A d \in Range(cell.detections) :
               IsValid(d[1], d[2]) => ~IsSubstring(d[2], Uncovered(cell.output, cell.calls, 1))

\* the count of column c in the summary sm, 0 without an entry
CountOf(sm, c) == IF c \in DOMAIN sm THEN sm[c] ELSE 0

\* C29: under Selective a confirmed phone value comes back from
\* deidentify_value unchanged, and analyze_dataframe still counts it in the
\* per-column count while the output cell keeps the phone number.
C29_SelectivePhoneCounted ==
    [][(done' = done + 1 /\ method = M_Selective)
          => /\ \A i \in DOMAIN cell'.calls :
                    cell'.calls[i][1] = K_phone
                       => /\ cell'.calls[i][3] = cell'.calls[i][2]
                          /\ IsSubstring(cell'.calls[i][2], cell'.output)
             /\ \A d \in Range(cell'.detections) :
                    (d[1] = K_phone /\ IsValid(d[1], d[2]))
                       => deidentify_value(ModState, M_Selective, d[1], d[2]).ret = d[2]
             /\ CountOf(summary', col) = CountOf(summary, col) + Len(cell'.calls)]_vars

\* a Selective run processed a cell that is a confirmed phone number: one
\* call, counted, and the cell left as it was
C29_Witness ==
    /\ method = M_Selective /\ done >= 1
    /\ cell.value = T_phone1
    /\ Len(cell.calls) = 1 /\ cell.calls[1][1] = K_phone
    /\ cell.count = 1 /\ CountOf(summary, cell.col) >= 1
    /\ cell.output = cell.value

\* C30: overlap resolution never hides real PII from the ground-truth check:
\* if some raw pattern match of the text passes its type's validator then
\* any_true_pii(text) is true; in particular an aadhaar candidate is dropped
\* inside a credit_card span only when that credit_card candidate validates.
C30_TruthSeesEveryValidMatch ==
    (dres.detected /\ dres.judged)
        => /\ (\E i \in DOMAIN dres.raw : is_valid_pii(dres.raw[i][1], dres.raw[i][2]))
                 => dres.truth
           /\ \A sp \in Range(dres.twelve) \ Range(dres.filtered) :
                  \E c \in Range(dres.twelve) :
                      /\ c[1] = K_credit_card
                      /\ Within(sp, c)
                      /\ is_valid_pii(c[1], c[2])

====
